---------------------------- MODULE Spec2Model ----------------------------
(***************************************************************************)
(* A model of the protocol-translation relay:                              *)
(*   - the fake-LLM server's JSON -> SSE translator (sendCodexResponse)    *)
(*     and its POST /v1/responses route,                                   *)
(*   - the mock OpenAI proxy's handleResponses / postJson,                 *)
(*   - the Qwen bridge's POST /v1/responses handler with its callbacks,    *)
(*   - the OAuth login callback listener (startLoginServerAndAuth),        *)
(*   - the scripted /v1/responses server and its per-conversation counter, *)
(*   - the CLI's credential files, their readers and main.                 *)
(* Each subsystem has its own next-state relation and specification; the   *)
(* variables of the other subsystems stay at their initial values.         *)
(***************************************************************************)
EXTENDS Integers, Sequences, FiniteSets, TLC

VARIABLES
  fkPc,       \* fake-LLM route: "idle" | "awaiting" | "done"
  fkAnswer,   \* the envelope receivedRequest resolved with (JNone before)
  fkOut,      \* SSE events written to res, in order
  fkEnded,    \* res.end() has been called
  pxEnv,      \* openai-proxy: the process environment (MOCK_QWEN, PROXY_EXPECT_JSON)
  pxPc,       \* openai-proxy request: "idle" | "awaiting" | "done" | "rejected"
  pxRid,      \* responseId of handleResponses
  pxUpstream, \* what the adapter call came to (NoUpstream before)
  pxOut,      \* SSE events written to res, in order
  pxEnded,    \* res.end() has been called
  qEnv,       \* Qwen bridge: QWEN_EMAIL and QWEN_PASSWORD are set
  qPc,        \* handler position: "idle" | "login" | "newchat" | "posting" | "streaming" | "done"
  qIntent,    \* detectFileUpdateIntent(userText) found a path
  qFinished,  \* finished
  qEnded,     \* res.writableEnded
  qClosed,    \* the client connection has closed before res.end()
  qEmitted,   \* emittedAnyTool
  qFullText,  \* fullText
  qTimer,     \* fallbackTimer: "unset" | "armed" | "fired"
  qUp,        \* the upstream stream: "none" | "open" | "ended" | "errored"
  qScript,    \* the chunks the upstream is going to send on this stream
  qSent,      \* how many of them it has sent
  qOut,       \* SSE events writeSse has written, in order
  lgServer,   \* login listener: "init" | "listening" | "closed"
  lgState,    \* the session's state nonce (genState)
  lgReqs,     \* the requests the listener has received, each with its handler's position
  lgRedeemed, \* authorization codes the token endpoint has already exchanged
  lgExchangeCalls, \* code-for-token exchanges posted to the token endpoint
  lgExchangesOk,   \* those that succeeded
  lgWrites,   \* writeSessionJson calls
  lgFile,     \* session.json (NoFile until written)
  lgTimers,   \* pending setTimeout(() => server.close(), 250)
  lgEffects,  \* the listener's effects in the order the code performs them
  lgReturned, \* startLoginServerAndAuth has returned
  convStep,   \* scripted server: the Map conversation key -> step
  scSeen,     \* the requests it has served: key, the step each observed, the item sent
  clAuth,     \* CLI: the contents of ~/.codex/auth.json
  clSession,  \* the contents of session.json
  clArgs,     \* process.argv flags: relogin, importAuth
  clPc,       \* main's position: "start" | "login" | "saved" | "asked" | "failed" | "exit"
  clHome,     \* what readAuthFromHome returned (Unread before)
  clReads,    \* each readSessionJson call: the contents it saw and what it returned
  clSent,     \* the credentials of each upstream request askQuestion has sent
  clWriter,   \* another process inside writeSessionJson: Idle or the record being written
  clWrites,   \* writeSessionJson calls of other processes so far
  pbText,     \* patch scan: the text given to findPatchBlocks
  pbBlocks,   \* the blocks it returned
  pbPc,       \* "ready" before the call, "scanned" after
  gaPc,       \* generic adapter: "idle", "awaiting" (askLlm pending), "done"
  gaRid,      \* its responseId
  gaReply,    \* the text askLlm returned
  gaObj,      \* what tryParseJson made of it
  gaOut,      \* the events written
  gaEnded,    \* res.end() was called
  smFed,      \* streamQwenMessage: the chunks the data handler has received
  smDeltas,   \* the strings handed to onDelta, in order
  smLog,      \* the parser_feed_error lines logged
  smOnEnd,    \* the arguments of the onEnd calls, in order
  bdPc,       \* login session binding: waiting for the port, or open (browser sent to the authorize URL)
  bdPkce,     \* pkce of startLoginServerAndAuth
  bdState,    \* state of startLoginServerAndAuth
  bdRedirect, \* redirectUri (Undefined until the port is known)
  bdAuthUrl,  \* the query parameters of the authorize URL (Undefined before)
  bdExchanges,\* the forms posted by exchangeCodeForTokens, in order
  bdAccepted, \* the state parameters of the callbacks that passed the guard
  aqPc,       \* askQuestion: idle, awaiting responses or chat, returned, thrown
  aqSession,  \* creds
  aqRequested,\* requestedModel (NoModel for null)
  aqIdx,      \* position of the for loop in tryModels
  aqReqs,     \* the requests posted, in order
  aqOutcomes, \* how each settled request settled
  aqLastErr,  \* lastErr (NoErr for null)
  ssStream,   \* httpsPostSSE: the upstream byte stream, as pieces of text
  ssPos,      \* how many pieces have arrived
  ssEvent,    \* currentEvent (NoEvent for null)
  ssRecords,  \* the records handed to onEvent, in order
  ssText,     \* fullText of askQuestion's onEvent
  ssDone,     \* the response ended and the promise resolved
  saChatId,   \* Qwen adapter: the module's chatId (NoChat for null)
  saCreated,  \* chats created upstream by this process
  saReqs      \* the POST /chat requests, each with its position in sendMessage

codexVars == <<fkPc, fkAnswer, fkOut, fkEnded>>
proxyVars == <<pxEnv, pxPc, pxRid, pxUpstream, pxOut, pxEnded>>

qwenVars ==
  <<qEnv, qPc, qIntent, qFinished, qEnded, qClosed, qEmitted, qFullText, qTimer,
    qUp, qScript, qSent, qOut>>

loginVars ==
  <<lgServer, lgState, lgReqs, lgRedeemed, lgExchangeCalls, lgExchangesOk, lgWrites,
    lgFile, lgTimers, lgEffects, lgReturned>>

scriptedVars == <<convStep, scSeen>>

cliVars == <<clAuth, clSession, clArgs, clPc, clHome, clReads, clSent, clWriter, clWrites>>

patchVars == <<pbText, pbBlocks, pbPc>>

adapterVars == <<gaPc, gaRid, gaReply, gaObj, gaOut, gaEnded>>

streamVars == <<smFed, smDeltas, smLog, smOnEnd>>

bindVars == <<bdPc, bdPkce, bdState, bdRedirect, bdAuthUrl, bdExchanges, bdAccepted>>

askVars == <<aqPc, aqSession, aqRequested, aqIdx, aqReqs, aqOutcomes, aqLastErr>>

sseVars == <<ssStream, ssPos, ssEvent, ssRecords, ssText, ssDone>>

chatVars == <<saChatId, saCreated, saReqs>>

vars == <<codexVars, proxyVars, qwenVars, loginVars, scriptedVars, cliVars, patchVars, adapterVars, streamVars, bindVars, askVars, sseVars, chatVars>>

\* what each subsystem's actions leave alone
codexFrame == <<proxyVars, qwenVars, loginVars, scriptedVars, cliVars, patchVars, adapterVars, streamVars, bindVars, askVars, sseVars, chatVars>>
proxyFrame == <<codexVars, qwenVars, loginVars, scriptedVars, cliVars, patchVars, adapterVars, streamVars, bindVars, askVars, sseVars, chatVars>>
qwenFrame == <<codexVars, proxyVars, loginVars, scriptedVars, cliVars, patchVars, adapterVars, streamVars, bindVars, askVars, sseVars, chatVars>>
loginFrame == <<codexVars, proxyVars, qwenVars, scriptedVars, cliVars, patchVars, adapterVars, streamVars, bindVars, askVars, sseVars, chatVars>>
scriptedFrame == <<codexVars, proxyVars, qwenVars, loginVars, cliVars, patchVars, adapterVars, streamVars, bindVars, askVars, sseVars, chatVars>>
cliFrame == <<codexVars, proxyVars, qwenVars, loginVars, scriptedVars, patchVars, adapterVars, streamVars, bindVars, askVars, sseVars, chatVars>>
patchFrame == <<codexVars, proxyVars, qwenVars, loginVars, scriptedVars, cliVars, adapterVars, streamVars, bindVars, askVars, sseVars, chatVars>>
adapterFrame == <<codexVars, proxyVars, qwenVars, loginVars, scriptedVars, cliVars, patchVars, streamVars, bindVars, askVars, sseVars, chatVars>>
streamFrame == <<codexVars, proxyVars, qwenVars, loginVars, scriptedVars, cliVars, patchVars, adapterVars, bindVars, askVars, sseVars, chatVars>>
bindFrame == <<codexVars, proxyVars, qwenVars, loginVars, scriptedVars, cliVars, patchVars, adapterVars, streamVars, askVars, sseVars, chatVars>>
askFrame == <<codexVars, proxyVars, qwenVars, loginVars, scriptedVars, cliVars, patchVars, adapterVars, streamVars, bindVars, sseVars, chatVars>>
sseFrame == <<codexVars, proxyVars, qwenVars, loginVars, scriptedVars, cliVars, patchVars, adapterVars, streamVars, bindVars, askVars, chatVars>>
chatFrame == <<codexVars, proxyVars, qwenVars, loginVars, scriptedVars, cliVars, patchVars, adapterVars, streamVars, bindVars, askVars, sseVars>>

(***************************************************************************)
(* JSON values, tagged by kind.  JAbsent is JavaScript's undefined (a      *)
(* missing property).                                                      *)
(***************************************************************************)
JAbsent == [k |-> "absent"]
JStr(s) == [k |-> "str", v |-> s]
JBool(b) == [k |-> "bool", v |-> b]
JArr(q) == [k |-> "arr", v |-> q]

IsStr(x) == x.k = "str"
IsArr(x) == x.k = "arr"
IsTrue(x) == x.k = "bool" /\ x.v = TRUE

\* JavaScript truthiness of the kinds used here
Truthy(x) ==
  CASE x.k = "absent" -> FALSE
    [] x.k = "str" -> x.v # ""
    [] x.k = "bool" -> x.v
    [] x.k = "chars" -> x.v # <<>>
    [] x.k = "null" -> FALSE
    [] OTHER -> TRUE

\* String.prototype.trim() leaves something: the text is not only blanks
BlankStrings == {"", " ", "   "}
TrimNonEmpty(s) == s \notin BlankStrings


JNum(n) == [k |-> "num", v |-> n]
\* the text JSON.stringify(v) produces, kept by the value it serializes
JsonText(v) == [k |-> "jsontext", of |-> v]
IsString(x) == x.k \in {"str", "jsontext"}

NoFields ==
  [k |-> "obj", cmd |-> JAbsent, command |-> JAbsent, input |-> JAbsent,
   patch |-> JAbsent, yield_time_ms |-> JAbsent, max_output_tokens |-> JAbsent,
   shell |-> JAbsent, login |-> JAbsent]
\* optional property access args?.f: only objects carry the fields
Cmd(a) == IF a.k = "obj" THEN a.cmd ELSE JAbsent
Command(a) == IF a.k = "obj" THEN a.command ELSE JAbsent
Input(a) == IF a.k = "obj" THEN a.input ELSE JAbsent
Patch(a) == IF a.k = "obj" THEN a.patch ELSE JAbsent

\* a ?? b
Coalesce(a, b) == IF a.k = "absent" THEN b ELSE a
\* a || b
OrElse(a, b) == IF Truthy(a) THEN a ELSE b

\* JSON.parse inside try/catch: the parsed value, or the input when it throws
ParseOrKeep(a) == IF a.k = "jsontext" THEN a.of ELSE a

RECURSIVE Join(_)
\* Array.prototype.join(" ") over an array of strings
Join(q) ==
  IF q = <<>> THEN ""
  ELSE IF Len(q) = 1 THEN q[1].v
  ELSE q[1].v \o " " \o Join(Tail(q))

Min(S) == CHOOSE m \in S : \A n \in S : m <= n

(***************************************************************************)
(* Reply envelopes: what receivedRequest resolves with.                    *)
(***************************************************************************)
MaxCalls == 2

PatchText == "*** Begin Patch\n*** Add File: a.txt\n+hi\n*** End Patch"

NoCall ==
  [type |-> JAbsent, name |-> JAbsent, tool |-> JAbsent, function |-> JAbsent,
   arguments |-> JAbsent, parameters |-> JAbsent, params |-> JAbsent,
   args |-> JAbsent]

CallEntries ==
  { [NoCall EXCEPT !.name = JStr("shell"),
       !.arguments = [NoFields EXCEPT !.command = JArr(<<JStr("ls"), JStr("-la")>>)]],
    [NoCall EXCEPT !.name = JStr("apply_patch"),
       !.arguments = [NoFields EXCEPT !.input = JStr(PatchText)]],
    [NoCall EXCEPT !.type = JStr("update_plan"), !.args = JsonText(NoFields)] }

RECURSIVE SeqsUpTo(_, _)
SeqsUpTo(S, n) ==
  IF n = 0 THEN {<<>>}
  ELSE LET shorter == SeqsUpTo(S, n - 1)
       IN shorter \cup {Append(q, e) : q \in shorter, e \in S}

TextEl(s) == [type |-> JStr("text"), text |-> JStr(s)]
ImageEl == [type |-> JStr("image"), text |-> JAbsent]
OutEl(s) == [type |-> JStr("output_text"), text |-> JStr(s)]

SummaryVals == {JAbsent, JStr("   "), JStr("thinking")}
FinalVals == {JAbsent, JBool(TRUE), JBool(FALSE)}
DoneVals == {JAbsent, JBool(TRUE)}
AssistantMessageVals == {JAbsent, JStr(""), JStr("am")}
ContentVals ==
  {JAbsent, JStr(""), JStr("hello"), JArr(<<TextEl("t1")>>),
   JArr(<<ImageEl, TextEl(""), TextEl("t1"), TextEl("t2")>>)}
OutputVals == {JAbsent, JStr("bye"), JArr(<<OutEl("o1")>>)}
ToolCallsVals == {JAbsent} \cup {JArr(q) : q \in SeqsUpTo(CallEntries, MaxCalls)}
RootVals == {NoCall} \cup CallEntries

ObjectEnvelopes ==
  [isNull : {FALSE}, summary : SummaryVals, final : FinalVals, done : DoneVals,
   finish : DoneVals, assistant_message : AssistantMessageVals,
   content : ContentVals, output : OutputVals, tool_calls : ToolCallsVals,
   root : RootVals]

\* json === null / undefined: every json?.x is undefined
NullEnvelope ==
  [isNull |-> TRUE, summary |-> JAbsent, final |-> JAbsent, done |-> JAbsent,
   finish |-> JAbsent, assistant_message |-> JAbsent, content |-> JAbsent,
   output |-> JAbsent, tool_calls |-> JAbsent, root |-> NoCall]

Envelopes == ObjectEnvelopes \cup {NullEnvelope}

NoAnswer == [isNull |-> TRUE, pending |-> TRUE]

RespIds == {"resp_a", "resp_b"}


(***************************************************************************)
(* Replies that carry tool calls only: the names and the argument shapes   *)
(* emitToolCall tells apart.                                               *)
(***************************************************************************)
\* ["shell", "exec", "bash", "sh", "run"].includes(name)
ShellNames == {"shell", "exec", "bash", "sh", "run"}

MaxToolCalls == 1

LsLa == JArr(<<JStr("ls"), JStr("-la")>>)
OtherPatch == "*** Begin Patch\n*** Delete File: b.txt\n*** End Patch"

ShellArgs ==
  { [NoFields EXCEPT !.command = LsLa],
    [NoFields EXCEPT !.command = JStr("ls -la")],
    [NoFields EXCEPT !.cmd = JStr("ls -la")],
    LsLa,
    [NoFields EXCEPT !.command = LsLa, !.yield_time_ms = JNum(100),
       !.max_output_tokens = JNum(50), !.shell = JStr("bash"), !.login = JBool(TRUE)],
    [NoFields EXCEPT !.cmd = JStr("ls -la"), !.yield_time_ms = JStr("100"),
       !.login = JStr("yes")],
    JsonText([NoFields EXCEPT !.command = LsLa]),
    [NoFields EXCEPT !.command = JStr("")],
    JArr(<<>>) }

PatchArgs ==
  { [NoFields EXCEPT !.input = JStr(PatchText)],
    [NoFields EXCEPT !.patch = JStr(PatchText)],
    [NoFields EXCEPT !.input = JStr(OtherPatch), !.patch = JStr(PatchText)],
    JStr(PatchText),
    JsonText([NoFields EXCEPT !.input = JStr(PatchText)]),
    [NoFields EXCEPT !.input = JStr("")],
    [NoFields EXCEPT !.input = JStr(""), !.patch = JStr(PatchText)] }

PlainArgs == {NoFields, JAbsent, JStr("not json"), JsonText(NoFields)}

ArgVals == ShellArgs \cup PatchArgs \cup PlainArgs

\* how an entry names its tool
Named(n) == [NoCall EXCEPT !.name = JStr(n)]
ShellNamed ==
  {Named(n) : n \in ShellNames}
  \cup {[NoCall EXCEPT !.type = JStr("function"), !.name = JStr("shell")]}
OtherNamed ==
  { Named("update_plan"), NoCall,
    [NoCall EXCEPT !.type = JStr("update_plan")],
    [NoCall EXCEPT !.tool = JStr("lookup")],
    [NoCall EXCEPT !.function = JStr("lookup")],
    [NoCall EXCEPT !.type = JStr("function"), !.name = JStr("update_plan")] }

ToolEntries ==
  {[ns EXCEPT !.arguments = a] : ns \in ShellNamed, a \in ShellArgs \cup PlainArgs}
  \cup {[Named("apply_patch") EXCEPT !.arguments = a] : a \in PatchArgs \cup PlainArgs}
  \cup {[ns EXCEPT !.arguments = a] :
          ns \in OtherNamed,
          a \in PlainArgs \cup {LsLa, [NoFields EXCEPT !.input = JStr(PatchText)]}}
  \cup {[Named("shell") EXCEPT ![f] = [NoFields EXCEPT !.command = LsLa]] :
          f \in {"parameters", "params", "args"}}

\* { tool_calls: [...] } and root-level calls, final or not
ToolEnvelopes ==
  {[NullEnvelope EXCEPT !.isNull = FALSE, !.final = f, !.tool_calls = JArr(q)] :
     f \in {JAbsent, JBool(TRUE)}, q \in SeqsUpTo(ToolEntries, MaxToolCalls) \ {<<>>}}
  \cup {[NullEnvelope EXCEPT !.isNull = FALSE, !.final = f, !.root = r] :
          f \in {JAbsent, JBool(TRUE)}, r \in ToolEntries}

(***************************************************************************)
(* sendCodexResponse: JSON -> SSE events.                                  *)
(***************************************************************************)
CreatedEvent(rid) == [type |-> "response.created", response |-> [id |-> rid]]

ZeroUsage == [input_tokens |-> 0, output_tokens |-> 0, total_tokens |-> 0]

CompletedEvent(rid) ==
  [type |-> "response.completed", response |-> [id |-> rid, usage |-> ZeroUsage]]

SummaryEvents(json) ==
  IF IsStr(json.summary) /\ TrimNonEmpty(json.summary.v)
  THEN <<[type |-> "response.reasoning_summary_text.delta", delta |-> json.summary.v]>>
  ELSE <<>>

isFinal(json) == IsTrue(json.final) \/ IsTrue(json.done) \/ IsTrue(json.finish)

\* pushAssistantText without its `if (!text) return`
pushAssistantText_KeepEmpty(text) ==
  <<[type |-> "response.output_item.done",
     item |-> [type |-> "message", role |-> "assistant", text |-> text]]>>

pushAssistantText(text) ==
  IF ~Truthy(text) THEN <<>>
  ELSE <<[type |-> "response.output_item.done",
          item |-> [type |-> "message", role |-> "assistant", text |-> text]]>>

\* content.find((c) => c?.type === "text" && typeof c.text === "string")?.text
FirstTextOf(arr) ==
  LET hits == {i \in 1..Len(arr) : arr[i].type = JStr("text") /\ IsStr(arr[i].text)}
  IN IF hits = {} THEN JAbsent ELSE arr[Min(hits)].text

\* output mistaken for taking precedence over assistant_message
finalMsg_OutputFirst(json) ==
  IF IsStr(json.output) /\ Truthy(json.output) THEN json.output
  ELSE IF IsStr(json.assistant_message) /\ Truthy(json.assistant_message)
    THEN json.assistant_message
  ELSE IF IsStr(json.content) /\ Truthy(json.content) THEN json.content
  ELSE IF IsArr(json.content) /\ Truthy(FirstTextOf(json.content.v))
    THEN FirstTextOf(json.content.v)
  ELSE JStr("Done.")

finalMsg(json) ==
  IF IsStr(json.assistant_message) /\ Truthy(json.assistant_message)
    THEN json.assistant_message
  ELSE IF IsStr(json.output) /\ Truthy(json.output) THEN json.output
  ELSE IF IsStr(json.content) /\ Truthy(json.content) THEN json.content
  ELSE IF IsArr(json.content) /\ Truthy(FirstTextOf(json.content.v))
    THEN FirstTextOf(json.content.v)
  ELSE JStr("Done.")

FinalEvents(json) == IF isFinal(json) THEN pushAssistantText(finalMsg(json)) ELSE <<>>

RECURSIVE ContentLoop(_)
ContentLoop(arr) ==
  IF arr = <<>> THEN <<>>
  ELSE (IF Head(arr).type = JStr("text") /\ IsStr(Head(arr).text)
        THEN pushAssistantText(Head(arr).text) ELSE <<>>)
       \o ContentLoop(Tail(arr))

\* the content loop stopping after the array's first element
ContentEvents_FirstOnly(json) ==
  IF ~isFinal(json) /\ IsStr(json.content) THEN pushAssistantText(json.content)
  ELSE IF ~isFinal(json) /\ IsArr(json.content)
    THEN ContentLoop(SubSeq(json.content.v, 1, 1))
  ELSE <<>>

ContentEvents(json) ==
  IF ~isFinal(json) /\ IsStr(json.content) THEN pushAssistantText(json.content)
  ELSE IF ~isFinal(json) /\ IsArr(json.content) THEN ContentLoop(json.content.v)
  ELSE <<>>

RECURSIVE OutputLoop(_)
OutputLoop(arr) ==
  IF arr = <<>> THEN <<>>
  ELSE (IF Head(arr).type = JStr("output_text") /\ IsStr(Head(arr).text)
        THEN pushAssistantText(Head(arr).text) ELSE <<>>)
       \o OutputLoop(Tail(arr))

OutputEvents(json) ==
  IF ~isFinal(json) /\ IsStr(json.output) THEN pushAssistantText(json.output)
  ELSE IF ~isFinal(json) /\ IsArr(json.output) THEN OutputLoop(json.output.v)
  ELSE <<>>

emitFunctionCall(toolName, obj) ==
  [type |-> "response.output_item.done",
   item |-> [type |-> "function_call", name |-> toolName,
             arguments |-> IF IsString(obj) THEN obj
                           ELSE JsonText(Coalesce(obj, NoFields)),
             call_id |-> "call_fn"]]

\* the shell branch with the bare list forgotten
cmdStr_NoBareList(args) ==
  IF IsString(Cmd(args)) THEN Cmd(args)
  ELSE IF IsArr(Command(args)) THEN JStr(Join(Command(args).v))
  ELSE IF IsString(Command(args)) THEN Command(args)
  ELSE JAbsent

\* the shell branch's cmdStr (JAbsent when no shape matches)
cmdStr(args) ==
  IF IsString(Cmd(args)) THEN Cmd(args)
  ELSE IF IsArr(Command(args)) THEN JStr(Join(Command(args).v))
  ELSE IF IsString(Command(args)) THEN Command(args)
  ELSE IF IsArr(args) THEN JStr(Join(args.v))
  ELSE JAbsent

\* { cmd, yield_time_ms?, max_output_tokens?, shell?, login? }
ShellPayload(args) ==
  [NoFields EXCEPT
     !.cmd = cmdStr(args),
     !.yield_time_ms =
        IF args.k = "obj" /\ args.yield_time_ms.k = "num" THEN args.yield_time_ms ELSE JAbsent,
     !.max_output_tokens =
        IF args.k = "obj" /\ args.max_output_tokens.k = "num"
        THEN args.max_output_tokens ELSE JAbsent,
     !.shell = IF args.k = "obj" /\ IsString(args.shell) THEN args.shell ELSE JAbsent,
     !.login = IF args.k = "obj" /\ args.login.k = "bool" THEN args.login ELSE JAbsent]

\* arguments.patch mistaken for taking precedence over arguments.input
patchText_PatchFirst(args) ==
  IF IsString(Patch(args)) THEN Patch(args)
  ELSE IF IsString(Input(args)) THEN Input(args)
  ELSE IF IsString(args) THEN args
  ELSE JAbsent

patchText(args) ==
  IF IsString(Input(args)) THEN Input(args)
  ELSE IF IsString(Patch(args)) THEN Patch(args)
  ELSE IF IsString(args) THEN args
  ELSE JAbsent

emitToolCall(nameIn, argsIn) ==
  LET name == IF Truthy(nameIn) THEN nameIn.v ELSE "unknown_function"
      args == IF IsString(argsIn) THEN ParseOrKeep(argsIn) ELSE argsIn
  IN IF name \in ShellNames /\ Truthy(cmdStr(args))
       THEN emitFunctionCall("exec_command", ShellPayload(args))
     ELSE IF name = "apply_patch" /\ Truthy(patchText(args))
       THEN [type |-> "response.output_item.done",
             item |-> [type |-> "custom_tool_call", name |-> "apply_patch",
                       input |-> patchText(args), call_id |-> "call_apply_patch"]]
     ELSE emitFunctionCall(name, Coalesce(args, NoFields))

\* call?.type || call?.name || call?.tool || call?.function
CallName(call) == OrElse(call.type, OrElse(call.name, OrElse(call.tool, call.function)))
\* call?.arguments ?? call?.parameters ?? call?.params ?? call?.args
CallArgs(call) ==
  Coalesce(call.arguments, Coalesce(call.parameters, Coalesce(call.params, call.args)))

RECURSIVE ToolLoop(_)
ToolLoop(calls) ==
  IF calls = <<>> THEN <<>>
  ELSE <<emitToolCall(CallName(Head(calls)), CallArgs(Head(calls)))>>
       \o ToolLoop(Tail(calls))

\* the tool loop without the finalization guard
ToolEvents_IgnoreFinal(json) ==
  LET tools == IF IsArr(json.tool_calls) THEN json.tool_calls.v ELSE <<>>
  IN IF Len(tools) > 0 THEN ToolLoop(tools)
     ELSE IF ~json.isNull /\ Truthy(CallName(json.root))
       THEN <<emitToolCall(CallName(json.root), CallArgs(json.root))>>
     ELSE <<>>

\* the root-level call emitted even after the entries of tool_calls
ToolEvents_RootToo(json) ==
  LET tools == IF IsArr(json.tool_calls) THEN json.tool_calls.v ELSE <<>>
  IN IF isFinal(json) THEN <<>>
     ELSE ToolLoop(tools)
            \o (IF ~json.isNull /\ Truthy(CallName(json.root))
                THEN <<emitToolCall(CallName(json.root), CallArgs(json.root))>>
                ELSE <<>>)

ToolEvents(json) ==
  LET tools == IF IsArr(json.tool_calls) THEN json.tool_calls.v ELSE <<>>
  IN IF ~isFinal(json) /\ Len(tools) > 0 THEN ToolLoop(tools)
     ELSE IF ~isFinal(json) /\ ~json.isNull /\ Truthy(CallName(json.root))
       THEN <<emitToolCall(CallName(json.root), CallArgs(json.root))>>
     ELSE <<>>

\* the completed event drawing a fresh randId("resp") instead of reusing responseId
sendCodexResponse_FreshCompletedId(json, responseId) ==
  <<CreatedEvent(responseId)>> \o SummaryEvents(json) \o FinalEvents(json)
    \o ContentEvents(json) \o OutputEvents(json) \o ToolEvents(json)
    \o <<CompletedEvent(CHOOSE r \in RespIds : r # responseId)>>

\* the tool loop run before the assistant text
sendCodexResponse_ToolsFirst(json, responseId) ==
  <<CreatedEvent(responseId)>> \o SummaryEvents(json) \o ToolEvents(json)
    \o FinalEvents(json) \o ContentEvents(json) \o OutputEvents(json)
    \o <<CompletedEvent(responseId)>>

sendCodexResponse(json, responseId) ==
  <<CreatedEvent(responseId)>> \o SummaryEvents(json) \o FinalEvents(json)
    \o ContentEvents(json) \o OutputEvents(json) \o ToolEvents(json)
    \o <<CompletedEvent(responseId)>>

(***************************************************************************)
(* The fake-LLM server's POST /v1/responses route.                         *)
(***************************************************************************)
InitCodex ==
  /\ fkPc = "idle"
  /\ fkAnswer = NoAnswer
  /\ fkOut = <<>>
  /\ fkEnded = FALSE

\* the route at rest, while another subsystem is explored
ParkedCodex == InitCodex

\* the request arrives: setupSSE, then await receivedRequest(req.body)
PostResponses ==
  /\ fkPc = "idle"
  /\ fkPc' = "awaiting"
  /\ UNCHANGED <<fkAnswer, fkOut, fkEnded>>
  /\ UNCHANGED codexFrame

\* receivedRequest resolves: sendCodexResponse writes every event and ends res
ReceivedResolve ==
  /\ fkPc = "awaiting"
  /\ \E json \in Envelopes, rid \in RespIds :
       /\ fkAnswer' = json
       /\ fkOut' = fkOut \o sendCodexResponse(json, rid)
  /\ fkEnded' = TRUE
  /\ fkPc' = "done"
  /\ UNCHANGED codexFrame

\* receivedRequest resolves with a reply made of tool calls
ReceivedToolReply ==
  /\ fkPc = "awaiting"
  /\ \E json \in ToolEnvelopes, rid \in RespIds :
       /\ fkAnswer' = json
       /\ fkOut' = fkOut \o sendCodexResponse(json, rid)
  /\ fkEnded' = TRUE
  /\ fkPc' = "done"
  /\ UNCHANGED codexFrame

\* receivedRequest rejects: the catch writes an "error" event and ends res
ReceivedReject ==
  /\ fkPc = "awaiting"
  /\ fkOut' = Append(fkOut, [type |-> "error", error |-> "err.message"])
  /\ fkEnded' = TRUE
  /\ fkPc' = "failed"
  /\ UNCHANGED fkAnswer
  /\ UNCHANGED codexFrame



(***************************************************************************)
(* Properties of the translator and the fake-LLM route.                    *)
(***************************************************************************)
CountType(out, t) == Cardinality({i \in 1..Len(out) : out[i].type = t})
CountItems(out, kinds) ==
  Cardinality({i \in 1..Len(out) :
                 out[i].type = "response.output_item.done" /\ out[i].item.type \in kinds})

\* C1: whatever the envelope, the events sendCodexResponse wrote begin with the
\* only response.created, end with the only response.completed, and the two
\* carry the same response identifier.
C1_OrderInvariant ==
  fkPc = "done" =>
    /\ Len(fkOut) >= 2
    /\ fkOut[1].type = "response.created"
    /\ fkOut[Len(fkOut)].type = "response.completed"
    /\ CountType(fkOut, "response.created") = 1
    /\ CountType(fkOut, "response.completed") = 1
    /\ fkOut[1].response.id = fkOut[Len(fkOut)].response.id

\* a non-final envelope with summary, content, output and two tool calls was translated
C1_Witness ==
  /\ fkPc = "done"
  /\ ~isFinal(fkAnswer)
  /\ fkAnswer.summary = JStr("thinking")
  /\ IsArr(fkAnswer.tool_calls) /\ Len(fkAnswer.tool_calls.v) = 2
  /\ Len(fkOut) = 7

\* C2: a final envelope (final, done or finish is true) yields exactly one
\* assistant message item and no function_call or custom_tool_call item.
C2_FinalExclusive ==
  (fkPc = "done" /\ isFinal(fkAnswer)) =>
    /\ CountItems(fkOut, {"message"}) = 1
    /\ CountItems(fkOut, {"function_call", "custom_tool_call"}) = 0

\* a final envelope holding two tool calls, content and output was translated
C2_Witness ==
  /\ fkPc = "done"
  /\ IsTrue(fkAnswer.done)
  /\ IsArr(fkAnswer.tool_calls) /\ Len(fkAnswer.tool_calls.v) = 2
  /\ fkAnswer.content = JStr("hello")
  /\ fkAnswer.output = JStr("bye")
  /\ CountItems(fkOut, {"message"}) = 1

\* C4: no request's stream ends without response.completed as its last event; a
\* failed request carries response.failed before it.
C4_TerminalFailure ==
  fkEnded =>
    /\ Len(fkOut) >= 1
    /\ fkOut[Len(fkOut)].type = "response.completed"
    /\ (fkPc = "failed" => CountType(fkOut, "response.failed") = 1)


\* the texts of the assistant message items written
MessageTexts(out) ==
  {out[i].item.text : i \in {k \in 1..Len(out) :
                               out[k].type = "response.output_item.done"
                                 /\ out[k].item.type = "message"}}

NonEmptyStr(x) == x.k = "str" /\ x.v # ""

\* the text-typed elements of json.content, by position
TextTyped(json) ==
  IF IsArr(json.content)
  THEN {i \in 1..Len(json.content.v) : json.content.v[i].type = JStr("text")}
  ELSE {}

\* the first available of assistant_message, output, content, the first
\* text-typed element's text (required to be non-empty or not), "Done."
FirstAvailable(json, elementNonEmpty) ==
  IF NonEmptyStr(json.assistant_message) THEN json.assistant_message
  ELSE IF NonEmptyStr(json.output) THEN json.output
  ELSE IF NonEmptyStr(json.content) THEN json.content
  ELSE IF TextTyped(json) # {}
          /\ (elementNonEmpty => NonEmptyStr(json.content.v[Min(TextTyped(json))].text))
    THEN json.content.v[Min(TextTyped(json))].text
  ELSE JStr("Done.")

\* C20 as stated: the final message's text is the first available of
\* assistant_message, output, content (non-empty strings), the text of the first
\* text-typed element of a content array, and otherwise "Done.".
C20_FinalTextAsStated ==
  (fkPc = "done" /\ isFinal(fkAnswer)) =>
    MessageTexts(fkOut) = {FirstAvailable(fkAnswer, FALSE)}

\* C20: ... the text of the first text-typed element of a content array when
\* that text is non-empty, and otherwise "Done.".
C20_FinalText ==
  (fkPc = "done" /\ isFinal(fkAnswer)) =>
    MessageTexts(fkOut) = {FirstAvailable(fkAnswer, TRUE)}

\* a final envelope whose content array's first text-typed element is empty,
\* with non-empty text elements after it: the message says "Done."
C20_Witness ==
  /\ fkPc = "done" /\ isFinal(fkAnswer)
  /\ fkAnswer.assistant_message = JStr("") /\ ~IsStr(fkAnswer.output)
  /\ fkAnswer.content = JArr(<<ImageEl, TextEl(""), TextEl("t1"), TextEl("t2")>>)
  /\ MessageTexts(fkOut) = {JStr("Done.")}

IsMessageEvent(ev) == ev.type = "response.output_item.done" /\ ev.item.type = "message"
IsToolEvent(ev) ==
  ev.type = "response.output_item.done"
    /\ ev.item.type \in {"function_call", "custom_tool_call"}

\* the texts of the assistant message items written, in the order written
MessageTextSeq(out) ==
  LET msgs == SelectSeq(out, IsMessageEvent)
  IN [i \in 1..Len(msgs) |-> msgs[i].item.text]

IsTextFragment(c) == c.type = JStr("text") /\ IsStr(c.text)
IsNonEmptyTextFragment(c) == IsTextFragment(c) /\ c.text.v # ""
IsNonEmptyOutputFragment(o) == o.type = JStr("output_text") /\ NonEmptyStr(o.text)

\* the fragments of json.content in input order: the bare string, or the texts
\* of the array's text-typed elements (all of them, or the non-empty ones)
ContentFragments(json, nonEmptyOnly) ==
  IF IsStr(json.content)
    THEN (IF nonEmptyOnly /\ json.content.v = "" THEN <<>> ELSE <<json.content>>)
  ELSE IF IsArr(json.content)
    THEN LET els == IF nonEmptyOnly
                    THEN SelectSeq(json.content.v, IsNonEmptyTextFragment)
                    ELSE SelectSeq(json.content.v, IsTextFragment)
         IN [i \in 1..Len(els) |-> els[i].text]
  ELSE <<>>

IsPrefix(p, q) == Len(p) <= Len(q) /\ SubSeq(q, 1, Len(p)) = p

\* C21 as stated: a non-final envelope's content yields one message per
\* fragment (the bare string, each text-typed element), in input order, with
\* the fragment's text; with no output field these are all the messages.
C21_OnePerFragmentAsStated ==
  (fkPc = "done" /\ ~isFinal(fkAnswer)) =>
    /\ IsPrefix(ContentFragments(fkAnswer, FALSE), MessageTextSeq(fkOut))
    /\ (fkAnswer.output = JAbsent =>
          MessageTextSeq(fkOut) = ContentFragments(fkAnswer, FALSE))

\* C21: a non-final envelope's content yields one message per fragment whose
\* text is non-empty, in input order, each with the fragment's text unchanged;
\* the messages of content come first and, with no output field, are all the
\* messages (content "hello" alone: created, message "hello", completed).
C21_OnePerFragment ==
  (fkPc = "done" /\ ~isFinal(fkAnswer)) =>
    /\ IsPrefix(ContentFragments(fkAnswer, TRUE), MessageTextSeq(fkOut))
    /\ (fkAnswer.output = JAbsent =>
          MessageTextSeq(fkOut) = ContentFragments(fkAnswer, TRUE))
    /\ ((fkAnswer.content = JStr("hello") /\ fkAnswer.output = JAbsent
           /\ SummaryEvents(fkAnswer) = <<>> /\ CountItems(fkOut, {"function_call", "custom_tool_call"}) = 0)
          => /\ Len(fkOut) = 3
             /\ IsMessageEvent(fkOut[2]) /\ fkOut[2].item.text = JStr("hello"))

\* a non-final content array with an image, an empty text and two texts was
\* translated into the two texts' messages, in order
C21_Witness ==
  /\ fkPc = "done" /\ ~isFinal(fkAnswer)
  /\ fkAnswer.content = JArr(<<ImageEl, TextEl(""), TextEl("t1"), TextEl("t2")>>)
  /\ fkAnswer.output = JAbsent
  /\ MessageTextSeq(fkOut) = <<JStr("t1"), JStr("t2")>>

IsDeltaEvent(ev) == ev.type = "response.reasoning_summary_text.delta"
Indices(out, Test(_)) == {i \in 1..Len(out) : Test(out[i])}

\* C22: the events are always response.created, then the reasoning-summary
\* delta (there exactly when summary is a non-blank string), then every
\* assistant message item, then every tool-call item, then response.completed:
\* no tool-call item precedes a message item and the delta precedes every item.
C22_EmissionOrder ==
  fkPc = "done" =>
    /\ fkOut[1].type = "response.created"
    /\ fkOut[Len(fkOut)].type = "response.completed"
    /\ Indices(fkOut, IsDeltaEvent) =
         IF IsStr(fkAnswer.summary) /\ fkAnswer.summary.v \notin BlankStrings
         THEN {2} ELSE {}
    /\ \A i \in Indices(fkOut, IsDeltaEvent) : fkOut[i].delta = fkAnswer.summary.v
    /\ \A i \in Indices(fkOut, IsMessageEvent), j \in Indices(fkOut, IsToolEvent) : i < j
    /\ \A i \in 2..(Len(fkOut) - 1) :
         IsDeltaEvent(fkOut[i]) \/ IsMessageEvent(fkOut[i]) \/ IsToolEvent(fkOut[i])

\* a summary, two content texts, an output text and a tool call were written
\* as delta, three messages, one tool-call item
C22_Witness ==
  /\ fkPc = "done"
  /\ fkAnswer.summary = JStr("thinking")
  /\ Len(MessageTextSeq(fkOut)) = 3
  /\ Cardinality(Indices(fkOut, IsToolEvent)) = 1
  /\ IsDeltaEvent(fkOut[2]) /\ IsToolEvent(fkOut[6])

\* the envelope names a tool call: an entry of tool_calls, or a root-level name
HasToolCall(json) ==
  \/ IsArr(json.tool_calls) /\ Len(json.tool_calls.v) > 0
  \/ ~json.isNull /\ \E f \in {"type", "name", "tool", "function"} : Truthy(json.root[f])

HasOutputText(json) ==
  \/ NonEmptyStr(json.output)
  \/ IsArr(json.output) /\ SelectSeq(json.output.v, IsNonEmptyOutputFragment) # <<>>

\* nothing to extract: not final (a final envelope always gets its message),
\* no non-blank summary, no non-empty content or output text, no tool call
NothingExtractable(json) ==
  /\ ~isFinal(json)
  /\ ~(IsStr(json.summary) /\ json.summary.v \notin BlankStrings)
  /\ ContentFragments(json, TRUE) = <<>>
  /\ ~HasOutputText(json)
  /\ ~HasToolCall(json)

\* C26: an envelope with no reasoning summary, no content or output text and
\* no tool call (the empty object, a null reply, only empty strings) is answered
\* with exactly response.created and response.completed, and the response ends.
C26_EmptyEnvelope ==
  (fkPc = "done" /\ NothingExtractable(fkAnswer)) =>
    /\ Len(fkOut) = 2
    /\ fkOut[1].type = "response.created"
    /\ fkOut[2].type = "response.completed"
    /\ fkEnded

\* a non-final envelope whose content is the empty string and whose summary is
\* blank was answered with two events
C26_Witness ==
  /\ fkPc = "done" /\ ~fkAnswer.isNull /\ ~isFinal(fkAnswer)
  /\ fkAnswer.content = JStr("") /\ fkAnswer.summary = JStr("   ")
  /\ fkAnswer.output = JAbsent /\ fkAnswer.tool_calls = JAbsent
  /\ Len(fkOut) = 2 /\ fkEnded

\* the calls a non-final envelope names, in order: the entries of tool_calls,
\* else the root-level call
CallsOf(json) ==
  IF isFinal(json) THEN <<>>
  ELSE IF IsArr(json.tool_calls) /\ Len(json.tool_calls.v) > 0 THEN json.tool_calls.v
  ELSE IF HasToolCall(json) THEN <<json.root>>
  ELSE <<>>

ToolItems(out) ==
  LET evs == SelectSeq(out, IsToolEvent) IN [i \in 1..Len(evs) |-> evs[i].item]

\* the arguments as an object, list or unparsable string
ArgsOf(call) == ParseOrKeep(CallArgs(call))

\* one of {command:[...]}, {command:"..."}, {cmd:"..."}, a bare list
HasShellShape(a) ==
  \/ a.k = "arr"
  \/ a.k = "obj" /\ (IsStr(a.cmd) \/ IsStr(a.command) \/ IsArr(a.command))

\* the command string of the shape
NormalizedCommand(a) ==
  IF a.k = "arr" THEN Join(a.v)
  ELSE IF IsStr(a.cmd) THEN a.cmd.v
  ELSE IF IsArr(a.command) THEN Join(a.command.v)
  ELSE a.command.v

Knobs == {"yield_time_ms", "max_output_tokens", "shell", "login"}
KnobKind(f) ==
  CASE f = "yield_time_ms" -> "num" [] f = "max_output_tokens" -> "num"
    [] f = "shell" -> "str" [] f = "login" -> "bool"
KnobOf(a, f) == IF a.k = "obj" THEN a[f] ELSE JAbsent

\* the item is one exec_command call for this command string and these knobs
IsExecCommand(item, a) ==
  /\ item.type = "function_call" /\ item.name = "exec_command"
  /\ item.arguments.k = "jsontext"
  /\ item.arguments.of.cmd = JStr(NormalizedCommand(a))
  /\ item.arguments.of.command = JAbsent
  /\ \A f \in Knobs :
       /\ item.arguments.of[f] \in {JAbsent, KnobOf(a, f)}
       /\ (KnobOf(a, f).k = KnobKind(f) => item.arguments.of[f] = KnobOf(a, f))

ShellCallAt(i) ==
  /\ CallName(CallsOf(fkAnswer)[i]).k = "str"
  /\ CallName(CallsOf(fkAnswer)[i]).v \in ShellNames
  /\ HasShellShape(ArgsOf(CallsOf(fkAnswer)[i]))

PatchTextOf(a) ==
  IF a.k = "obj" /\ IsStr(a.input) THEN a.input
  ELSE IF a.k = "obj" /\ IsStr(a.patch) THEN a.patch
  ELSE IF a.k = "str" THEN a
  ELSE JAbsent

\* C24: a non-final call named apply_patch whose patch text (arguments.input,
\* else arguments.patch, else the arguments when a bare string) is non-empty is
\* emitted as exactly one custom_tool_call named apply_patch whose input is
\* that text; with no non-empty patch text it is one generic function_call.
C24_ApplyPatch ==
  fkPc = "done" =>
    /\ Len(ToolItems(fkOut)) = Len(CallsOf(fkAnswer))
    /\ \A i \in 1..Len(CallsOf(fkAnswer)) :
         LET a == ArgsOf(CallsOf(fkAnswer)[i])
             item == ToolItems(fkOut)[i]
         IN CallName(CallsOf(fkAnswer)[i]) = JStr("apply_patch") =>
              IF NonEmptyStr(PatchTextOf(a))
              THEN /\ item.type = "custom_tool_call" /\ item.name = "apply_patch"
                   /\ item.input = PatchTextOf(a)
              ELSE /\ item.type = "function_call" /\ item.name = "apply_patch"
                   /\ IsString(item.arguments)

\* an apply_patch call with both input and patch was emitted with its input
C24_Witness ==
  /\ fkPc = "done" /\ Len(CallsOf(fkAnswer)) = 1
  /\ CallsOf(fkAnswer)[1].name = JStr("apply_patch")
  /\ CallArgs(CallsOf(fkAnswer)[1]) =
       [NoFields EXCEPT !.input = JStr(OtherPatch), !.patch = JStr(PatchText)]
  /\ ToolItems(fkOut)[1].type = "custom_tool_call"
  /\ ToolItems(fkOut)[1].input = JStr(OtherPatch)

\* the name an entry declares: its name field, else tool, function, type
DeclaredName(call) ==
  OrElse(call.name, OrElse(call.tool, OrElse(call.function, call.type)))

\* C25: a non-final call that is neither shell-like nor apply_patch is emitted
\* as one function_call named by the entry's declared name ("unknown_function"
\* when it declares none), whose arguments are a string: the JSON text of the
\* arguments, or the original string when it does not parse as JSON.
C25_GenericCall ==
  fkPc = "done" =>
    /\ Len(ToolItems(fkOut)) = Len(CallsOf(fkAnswer))
    /\ \A i \in 1..Len(CallsOf(fkAnswer)) :
         LET call == CallsOf(fkAnswer)[i]
             declared == IF Truthy(DeclaredName(call)) THEN DeclaredName(call).v
                         ELSE "unknown_function"
             a == ArgsOf(call)
             item == ToolItems(fkOut)[i]
         IN declared \notin ShellNames \cup {"apply_patch"} =>
              /\ item.type = "function_call"
              /\ item.name = declared
              /\ item.arguments = IF a.k = "str" THEN a
                                  ELSE JsonText(IF a.k = "absent" THEN NoFields ELSE a)

\* the item emitToolCall writes for one entry
ItemFor(call) == emitToolCall(CallName(call), CallArgs(call)).item

\* C36: for a non-final envelope whose tool_calls is a non-empty list, exactly
\* one item is written per entry, in list order, whatever the root-level
\* type/name/tool/function say; the root-level object gives one item of its
\* own only when tool_calls is absent or empty (and none when it names no call).
C36_ListBeforeRoot ==
  (fkPc = "done" /\ ~isFinal(fkAnswer)) =>
    LET entries == IF IsArr(fkAnswer.tool_calls) THEN fkAnswer.tool_calls.v ELSE <<>>
        items == ToolItems(fkOut)
    IN IF Len(entries) > 0
         THEN /\ Len(items) = Len(entries)
              /\ \A i \in 1..Len(entries) : items[i] = ItemFor(entries[i])
       ELSE IF ~fkAnswer.isNull
               /\ \E f \in {"type", "name", "tool", "function"} : Truthy(fkAnswer.root[f])
         THEN items = <<ItemFor(fkAnswer.root)>>
       ELSE items = <<>>

\* two entries (apply_patch, then shell) next to a root-level update_plan call:
\* two items, in list order, none for the root
C36_Witness ==
  /\ fkPc = "done" /\ ~isFinal(fkAnswer)
  /\ IsArr(fkAnswer.tool_calls) /\ Len(fkAnswer.tool_calls.v) = 2
  /\ fkAnswer.tool_calls.v[1].name = JStr("apply_patch")
  /\ fkAnswer.tool_calls.v[2].name = JStr("shell")
  /\ fkAnswer.root.type = JStr("update_plan")
  /\ Len(ToolItems(fkOut)) = 2
  /\ ToolItems(fkOut)[1].type = "custom_tool_call"
  /\ ToolItems(fkOut)[2].name = "exec_command"

(***************************************************************************)
(* Text as a sequence of characters, for the code that scans or slices it. *)
(***************************************************************************)
JChars(q) == [k |-> "chars", v |-> q]

BeginMarker ==
  <<"*","*","*"," ","B","e","g","i","n"," ","P","a","t","c","h">>
EndMarker ==
  <<"*","*","*"," ","E","n","d"," ","P","a","t","c","h">>

\* text.indexOf(pat, from), 1-based; 0 when pat does not occur at or after from
IndexOf(text, pat, from) ==
  LET hits == {i \in from..(Len(text) - Len(pat) + 1) :
                 SubSeq(text, i, i + Len(pat) - 1) = pat}
  IN IF hits = {} THEN 0 ELSE Min(hits)

\* /\*\*\* Begin Patch[\s\S]*?\*\*\* End Patch/.exec(text): match[0], or <<>>
FirstPatchMatch(text) ==
  LET b == IndexOf(text, BeginMarker, 1)
      e == IF b = 0 THEN 0 ELSE IndexOf(text, EndMarker, b + Len(BeginMarker))
  IN IF b = 0 \/ e = 0 THEN <<>> ELSE SubSeq(text, b, e + Len(EndMarker) - 1)

(***************************************************************************)
(* mock-openai/openai-proxy.js: handleResponses and postJson.              *)
(***************************************************************************)
chunkSize == 400

PlainText ==
  <<"h","e","l","l","o">>
PatchBody ==
  <<"\n","+","x","\n">>
BareBlock == BeginMarker \o PatchBody \o EndMarker
ProseWithPatch == PlainText \o BareBlock \o PlainText
Unterminated == PlainText \o BeginMarker \o PatchBody
LongText == [i \in 1..(2 * chunkSize + 1) |-> "a"]
MockText ==
  <<"T","h","i","s"," ","i","s"," ","a"," ","m","o","c","k","e","d"," ","Q",
    "w","e","n"," ","r","e","s","p","o","n","s","e"," ","u","s","e","d"," ",
    "f","o","r"," ","l","o","c","a","l"," ","t","e","s","t","i","n","g"," ",
    "w","i","t","h","o","u","t"," ","i","n","t","e","r","n","e","t",".">>
\* {"type":"apply_patch","patch":"<BareBlock>"}
JsonPatchText ==
  <<"{","\"","t","y","p","e","\"",":","\"","a","p","p","l","y","_","p","a",
    "t","c","h","\"",",","\"","p","a","t","c","h","\"",":","\"">>
    \o BareBlock \o <<"\"", "}">>
\* {"text":"hello"}
JsonMessageText ==
  <<"{","\"","t","e","x","t","\"",":","\"">>
    \o PlainText \o <<"\"", "}">>

NoReplyFields ==
  [k |-> "obj", type |-> JAbsent, action |-> JAbsent, patch |-> JAbsent,
   apply_patch |-> JAbsent, text |-> JAbsent]
Unparsable == [k |-> "throws"]

\* JSON.parse(text) over the reply texts: the value, or Unparsable when it throws
JsonParseReply(text) ==
  IF text = JsonPatchText
    THEN [NoReplyFields EXCEPT !.type = JStr("apply_patch"), !.patch = JChars(BareBlock)]
  ELSE IF text = JsonMessageText THEN [NoReplyFields EXCEPT !.text = JChars(PlainText)]
  ELSE Unparsable

ReplyTexts ==
  {<<>>, PlainText, ProseWithPatch, Unterminated, LongText, JsonPatchText, JsonMessageText}

\* what the adapter call comes to: a transport error, the request timeout, or an
\* HTTP answer whose body is JSON with a "response" field, JSON with only an
\* "error" field, or not JSON at all
NoUpstream == [k |-> "none"]
AdapterStatuses == {200, 404, 500}
AdapterBodies ==
  {[k |-> "json", response |-> JChars(t)] : t \in ReplyTexts}
    \cup {[k |-> "json", response |-> JAbsent], [k |-> "notjson"]}
UpstreamOutcomes ==
  {[k |-> "unreachable"], [k |-> "timeout"]}
    \cup {[k |-> "reply", status |-> st, body |-> b] : st \in AdapterStatuses, b \in AdapterBodies}

\* postJson: [ok |-> TRUE, text |-> ...] when the promise resolves,
\* [ok |-> FALSE, message |-> ...] when it rejects
postJson(u) ==
  IF u.k = "unreachable" THEN [ok |-> FALSE, message |-> "connect ECONNREFUSED"]
  ELSE IF u.k = "timeout" THEN [ok |-> FALSE, message |-> "Upstream timeout"]
  ELSE IF u.body.k = "notjson"
    THEN [ok |-> FALSE, message |-> "Invalid JSON from upstream"]
  ELSE [ok |-> TRUE,
        text |-> IF Truthy(u.body.response) THEN u.body.response.v ELSE <<>>]

PxUsage ==
  [input_tokens |-> 0, input_tokens_details |-> "null", output_tokens |-> 0,
   output_tokens_details |-> "null", total_tokens |-> 0]

PxCreated(rid) == [type |-> "response.created", response |-> [id |-> rid]]
PxCompleted(rid) ==
  [type |-> "response.completed",
   response |-> [id |-> rid, usage |-> PxUsage, output |-> <<>>]]
PxFailed(message) ==
  [type |-> "response.failed", response |-> [error |-> [message |-> message]]]
PxPatchCall(patch) ==
  [type |-> "response.output_item.done",
   item |-> [type |-> "custom_tool_call", name |-> "apply_patch", input |-> patch,
             call_id |-> "call"]]
PxMessage(text) ==
  [type |-> "response.output_item.done",
   item |-> [type |-> "message", role |-> "assistant", text |-> text]]

RECURSIVE PxDeltas_ShortSlice(_, _)
\* the slice one character short of the step
PxDeltas_ShortSlice(text, i) ==
  IF i > Len(text) THEN <<>>
  ELSE <<[type |-> "response.output_text.delta",
          delta |-> SubSeq(text, i, IF i + chunkSize - 2 < Len(text)
                                    THEN i + chunkSize - 2 ELSE Len(text))]>>
       \o PxDeltas_ShortSlice(text, i + chunkSize)

RECURSIVE PxDeltas(_, _)
\* for (let i = 0; i < text.length; i += chunkSize) delta text.slice(i, i + chunkSize)
PxDeltas(text, i) ==
  IF i > Len(text) THEN <<>>
  ELSE <<[type |-> "response.output_text.delta",
          delta |-> SubSeq(text, i, IF i + chunkSize - 1 < Len(text)
                                    THEN i + chunkSize - 1 ELSE Len(text))]>>
       \o PxDeltas(text, i + chunkSize)

\* step 1 of the mapping (PROXY_EXPECT_JSON): the patch of a parsed object, or <<>>
StrictPatch(obj) ==
  IF obj.k # "obj" THEN <<>>
  ELSE IF obj.type = JStr("apply_patch") /\ obj.patch.k = "chars" THEN obj.patch.v
  ELSE IF obj.action = JStr("apply_patch") /\ obj.patch.k = "chars" THEN obj.patch.v
  ELSE IF obj.apply_patch.k = "chars" THEN obj.apply_patch.v
  ELSE <<>>

\* step 3 run even when a patch was handled
MapReply_MessageToo(fullText, expectJson) ==
  LET obj == IF expectJson THEN JsonParseReply(fullText) ELSE Unparsable
      strict == StrictPatch(obj)
      text == IF obj.k = "obj" /\ strict = <<>> /\ obj.text.k = "chars"
              THEN obj.text.v ELSE fullText
      match == FirstPatchMatch(text)
  IN (IF strict # <<>> THEN <<PxPatchCall(strict)>>
      ELSE IF match # <<>> THEN <<PxPatchCall(match)>>
      ELSE <<>>)
     \o PxDeltas(text, 1) \o <<PxMessage(text)>>

\* the events handleResponses writes after a successful upstream call
MapReply(fullText, expectJson) ==
  LET obj == IF expectJson THEN JsonParseReply(fullText) ELSE Unparsable
      strict == StrictPatch(obj)
      text == IF obj.k = "obj" /\ strict = <<>> /\ obj.text.k = "chars"
              THEN obj.text.v ELSE fullText
      match == FirstPatchMatch(text)
  IN IF strict # <<>> THEN <<PxPatchCall(strict)>>
     ELSE IF match # <<>> THEN <<PxPatchCall(match)>>
     ELSE PxDeltas(text, 1) \o <<PxMessage(text)>>

\* everything handleResponses writes after response.created
AfterUpstream(rid, result, expectJson) ==
  IF ~result.ok THEN <<PxFailed(result.message), PxCompleted(rid)>>
  ELSE MapReply(result.text, expectJson) \o <<PxCompleted(rid)>>

InitProxy ==
  /\ pxEnv \in [MOCK_QWEN : BOOLEAN, PROXY_EXPECT_JSON : BOOLEAN]
  /\ pxPc = "idle"
  /\ pxRid = "none"
  /\ pxUpstream = NoUpstream
  /\ pxOut = <<>>
  /\ pxEnded = FALSE

\* POST /v1/responses whose body is not JSON: 400, no stream
PxInvalidBody ==
  /\ pxPc = "idle"
  /\ pxPc' = "rejected"
  /\ pxEnded' = TRUE
  /\ UNCHANGED <<pxEnv, pxRid, pxUpstream, pxOut>>
  /\ UNCHANGED proxyFrame

\* handleResponses up to the await of postJson
PxHandleResponses ==
  /\ pxPc = "idle"
  /\ ~pxEnv.MOCK_QWEN
  /\ \E rid \in RespIds :
       /\ pxRid' = rid
       /\ pxOut' = <<PxCreated(rid)>>
  /\ pxPc' = "awaiting"
  /\ UNCHANGED <<pxEnv, pxUpstream, pxEnded>>
  /\ UNCHANGED proxyFrame

\* handleResponses with MOCK_QWEN=1: no upstream call, the handler runs through
PxHandleMocked ==
  /\ pxPc = "idle"
  /\ pxEnv.MOCK_QWEN
  /\ \E rid \in RespIds :
       /\ pxRid' = rid
       /\ pxOut' = <<PxCreated(rid)>>
            \o AfterUpstream(rid, [ok |-> TRUE, text |-> MockText], pxEnv.PROXY_EXPECT_JSON)
  /\ pxPc' = "done"
  /\ pxEnded' = TRUE
  /\ UNCHANGED <<pxEnv, pxUpstream>>
  /\ UNCHANGED proxyFrame

\* the adapter call settles and the handler runs to res.end()
PxUpstreamSettles ==
  /\ pxPc = "awaiting"
  /\ \E u \in UpstreamOutcomes :
       /\ pxUpstream' = u
       /\ pxOut' = pxOut \o AfterUpstream(pxRid, postJson(u), pxEnv.PROXY_EXPECT_JSON)
  /\ pxPc' = "done"
  /\ pxEnded' = TRUE
  /\ UNCHANGED <<pxEnv, pxRid>>
  /\ UNCHANGED proxyFrame

\* the proxy at rest, while another subsystem is explored
ParkedProxy ==
  /\ pxEnv = [MOCK_QWEN |-> FALSE, PROXY_EXPECT_JSON |-> FALSE]
  /\ pxPc = "idle"
  /\ pxRid = "none"
  /\ pxUpstream = NoUpstream
  /\ pxOut = <<>>
  /\ pxEnded = FALSE

\* the adapter call failed: unreachable, timed out, or answered outside 2xx
UpstreamFailed(u) ==
  \/ u.k \in {"unreachable", "timeout"}
  \/ u.k = "reply" /\ ~(u.status >= 200 /\ u.status < 300)

\* C3: whenever the adapter call fails, the client receives exactly
\* response.created, response.failed with a populated message, and
\* response.completed with the created identifier and all-zero token counts.
C3_UpstreamFailure ==
  (pxPc = "done" /\ UpstreamFailed(pxUpstream)) =>
    /\ Len(pxOut) = 3
    /\ pxOut[1] = PxCreated(pxRid)
    /\ pxOut[2].type = "response.failed"
    /\ pxOut[2].response.error.message # ""
    /\ pxOut[3].type = "response.completed"
    /\ pxOut[3].response.id = pxOut[1].response.id
    /\ pxOut[3].response.usage.input_tokens = 0
    /\ pxOut[3].response.usage.output_tokens = 0
    /\ pxOut[3].response.usage.total_tokens = 0

IsPxDelta(ev) == ev.type = "response.output_text.delta"
IsPxItem(ev) == ev.type = "response.output_item.done"

RECURSIVE ConcatDeltas(_)
ConcatDeltas(evs) == IF evs = <<>> THEN <<>> ELSE Head(evs).delta \o ConcatDeltas(Tail(evs))

\* the adapter answered 2xx with a JSON body, or the reply is the mocked one
UpstreamSucceeded ==
  \/ pxEnv.MOCK_QWEN
  \/ /\ pxUpstream.k = "reply" /\ pxUpstream.status \in 200..299
     /\ pxUpstream.body.k = "json"

\* the reply text is plain: no patch block in it, and not read as JSON
PlainReply ==
  /\ ~pxEnv.MOCK_QWEN /\ ~pxEnv.PROXY_EXPECT_JSON
  /\ pxUpstream.k = "reply" /\ pxUpstream.status \in 200..299
  /\ pxUpstream.body.k = "json" /\ pxUpstream.body.response.k = "chars"
  /\ pxUpstream.body.response.v \in {PlainText, LongText, Unterminated}

\* C33: response.created is written before the adapter is called; a plain-text
\* reply then gives zero or more response.output_text.delta events, each
\* non-empty and of at most 400 characters, whose deltas in order make up the
\* text of the one assistant message item that follows them, and
\* response.completed after that item.
C33_DeltasMakeTheMessage ==
  /\ pxPc = "awaiting" => (pxOut = <<PxCreated(pxRid)>> /\ pxUpstream = NoUpstream)
  /\ (pxPc = "done" /\ PlainReply) =>
       LET n == Len(pxOut)
           deltas == SubSeq(pxOut, 2, n - 2)
       IN /\ n >= 3
          /\ pxOut[1] = PxCreated(pxRid)
          /\ \A i \in 1..Len(deltas) :
               /\ IsPxDelta(deltas[i])
               /\ Len(deltas[i].delta) >= 1 /\ Len(deltas[i].delta) <= 400
          /\ IsPxItem(pxOut[n - 1]) /\ pxOut[n - 1].item.type = "message"
          /\ pxOut[n - 1].item.text = pxUpstream.body.response.v
          /\ ConcatDeltas(deltas) = pxOut[n - 1].item.text
          /\ pxOut[n].type = "response.completed"

\* a reply of 801 characters went out as deltas of 400, 400 and 1
C33_Witness ==
  /\ pxPc = "done" /\ PlainReply
  /\ pxUpstream.body.response.v = LongText
  /\ Len(pxOut) = 6
  /\ Len(pxOut[2].delta) = 400 /\ Len(pxOut[3].delta) = 400 /\ Len(pxOut[4].delta) = 1

\* C40: every successful upstream reply gives exactly one output item between
\* response.created and response.completed, an apply_patch custom_tool_call or
\* an assistant message, and response.output_text.delta events only with the
\* message.
C40_ExactlyOneItem ==
  (pxPc = "done" /\ UpstreamSucceeded) =>
    LET items == SelectSeq(pxOut, IsPxItem)
    IN /\ pxOut[1].type = "response.created"
       /\ pxOut[Len(pxOut)].type = "response.completed"
       /\ Len(items) = 1
       /\ \/ items[1].item.type = "message"
          \/ items[1].item.type = "custom_tool_call" /\ items[1].item.name = "apply_patch"
       /\ (SelectSeq(pxOut, IsPxDelta) # <<>> => items[1].item.type = "message")

\* with PROXY_EXPECT_JSON the reply {"type":"apply_patch","patch":...} went
\* out as one custom_tool_call and no delta
C40_Witness ==
  /\ pxPc = "done" /\ UpstreamSucceeded /\ pxEnv.PROXY_EXPECT_JSON
  /\ pxUpstream.k = "reply" /\ pxUpstream.body.response = JChars(JsonPatchText)
  /\ Len(pxOut) = 3
  /\ pxOut[2].item.type = "custom_tool_call"


(***************************************************************************)
(* The Qwen bridge (POST /v1/responses backed by a streamed Qwen chat).    *)
(***************************************************************************)
\* the last occurrence of pat in text (0 when none)
LastIndexOf(text, pat) ==
  LET hits == {i \in 1..(Len(text) - Len(pat) + 1) :
                 SubSeq(text, i, i + Len(pat) - 1) = pat}
  IN IF hits = {} THEN 0 ELSE CHOOSE m \in hits : \A n \in hits : n <= m

RECURSIVE findPatchBlocksFrom_Greedy(_, _)
\* the scan closing each block at the text's last end-marker
findPatchBlocksFrom_Greedy(text, idx) ==
  LET s == IndexOf(text, BeginMarker, idx)
      e == IF s = 0 \/ LastIndexOf(text, EndMarker) < s THEN 0
           ELSE LastIndexOf(text, EndMarker)
  IN IF s = 0 \/ e = 0 THEN <<>>
     ELSE <<SubSeq(text, s, e + Len(EndMarker) - 1)>>
            \o findPatchBlocksFrom_Greedy(text, e + Len(EndMarker))

RECURSIVE findPatchBlocksFrom_Partial(_, _)
\* the scan keeping an unterminated block up to the end of the text
findPatchBlocksFrom_Partial(text, idx) ==
  LET s == IndexOf(text, BeginMarker, idx)
      e == IF s = 0 THEN 0 ELSE IndexOf(text, EndMarker, s)
  IN IF s = 0 THEN <<>>
     ELSE IF e = 0 THEN <<SubSeq(text, s, Len(text))>>
     ELSE <<SubSeq(text, s, e + Len(EndMarker) - 1)>>
            \o findPatchBlocksFrom_Partial(text, e + Len(EndMarker))

RECURSIVE findPatchBlocksFrom(_, _)
findPatchBlocksFrom(text, idx) ==
  LET s == IndexOf(text, BeginMarker, idx)
      e == IF s = 0 THEN 0 ELSE IndexOf(text, EndMarker, s)
  IN IF s = 0 \/ e = 0 THEN <<>>
     ELSE <<SubSeq(text, s, e + Len(EndMarker) - 1)>>
            \o findPatchBlocksFrom(text, e + Len(EndMarker))

findPatchBlocks(text) == findPatchBlocksFrom(text, 1)

(***************************************************************************)
(* findPatchBlocks applied to texts assembled from markers and filler.     *)
(***************************************************************************)
MaxSegments == 4

Stars == <<"*","*","*"," ">>
Filler == <<"x">>
Segments == {BeginMarker, EndMarker, Stars, Filler}

RECURSIVE Concat(_)
Concat(q) == IF q = <<>> THEN <<>> ELSE Head(q) \o Concat(Tail(q))

ScanTexts == {Concat(q) : q \in SeqsUpTo(Segments, MaxSegments)}

InitPatch ==
  /\ pbText \in ScanTexts
  /\ pbBlocks = <<>>
  /\ pbPc = "ready"

\* no scan under way, while another subsystem is explored
ParkedPatch ==
  /\ pbText = <<>>
  /\ pbBlocks = <<>>
  /\ pbPc = "ready"

\* const blocks = findPatchBlocks(text)
PbScan ==
  /\ pbPc = "ready"
  /\ pbBlocks' = findPatchBlocks(pbText)
  /\ pbPc' = "scanned"
  /\ UNCHANGED pbText
  /\ UNCHANGED patchFrame

StartsWith(text, pat) == Len(text) >= Len(pat) /\ SubSeq(text, 1, Len(pat)) = pat
EndsWith(text, pat) ==
  Len(text) >= Len(pat) /\ SubSeq(text, Len(text) - Len(pat) + 1, Len(text)) = pat

RECURSIVE Embeds(_, _, _)
\* the blocks occur in the text at or after position from, one after the
\* other, without overlap
Embeds(text, blocks, from) ==
  IF blocks = <<>> THEN TRUE
  ELSE \E p \in from..(Len(text) - Len(Head(blocks)) + 1) :
         /\ SubSeq(text, p, p + Len(Head(blocks)) - 1) = Head(blocks)
         /\ Embeds(text, Tail(blocks), p + Len(Head(blocks)))

\* C27: the blocks findPatchBlocks returns are substrings of the text, in order
\* of appearance and without overlap; each begins with the begin-marker and
\* ends with the first end-marker after it, markers included.
C27_BlocksAreBoundedSpans ==
  pbPc = "scanned" =>
    /\ Embeds(pbText, pbBlocks, 1)
    /\ \A i \in 1..Len(pbBlocks) :
         /\ StartsWith(pbBlocks[i], BeginMarker)
         /\ EndsWith(pbBlocks[i], EndMarker)
         /\ IndexOf(pbBlocks[i], EndMarker, 1) = Len(pbBlocks[i]) - Len(EndMarker) + 1

\* begin, filler, end, end: one block, closed at the first end-marker
C27_Witness ==
  /\ pbPc = "scanned"
  /\ pbText = BeginMarker \o Filler \o EndMarker \o EndMarker
  /\ pbBlocks = <<BeginMarker \o Filler \o EndMarker>>

\* the begin-markers of the text that have an end-marker after them
TerminatedBegins(text) ==
  {p \in 1..(Len(text) - Len(BeginMarker) + 1) :
     /\ SubSeq(text, p, p + Len(BeginMarker) - 1) = BeginMarker
     /\ IndexOf(text, EndMarker, p) # 0}

\* C28: a begin-marker with no end-marker after it gives no block, whole or
\* partial: every block starts at a begin-marker that has an end-marker after
\* it and stops with an end-marker, and a text none of whose begin-markers is
\* followed by an end-marker gives no block at all.
C28_UnterminatedDiscarded ==
  pbPc = "scanned" =>
    /\ \A i \in 1..Len(pbBlocks) :
         /\ EndsWith(pbBlocks[i], EndMarker)
         /\ \E p \in TerminatedBegins(pbText) :
              /\ p + Len(pbBlocks[i]) - 1 <= Len(pbText)
              /\ SubSeq(pbText, p, p + Len(pbBlocks[i]) - 1) = pbBlocks[i]
    /\ Len(pbBlocks) <= Cardinality(TerminatedBegins(pbText))
    /\ (TerminatedBegins(pbText) = {} => pbBlocks = <<>>)

\* a complete block followed by an unterminated begin: only the first is returned
C28_Witness ==
  /\ pbPc = "scanned"
  /\ pbText = BeginMarker \o EndMarker \o BeginMarker \o Filler
  /\ pbBlocks = <<BeginMarker \o EndMarker>>

Includes(text, pat) == IndexOf(text, pat, 1) # 0

ToolCallsWord ==
  <<"t","o","o","l","_","c","a","l","l","s">>

\* the reply documents the upstream may stream, each cut into two chunks
\* {"tool_calls":[{"name":"apply_patch","arguments":{"input":"*** Begin Patch\n+x\n*** End Patch"}}]}
DocToolHead ==
  <<"{","\"","t","o","o","l","_","c","a","l","l","s","\"",":","[","{","\"",
    "n","a","m","e","\"",":","\"","a","p","p","l","y","_","p","a","t","c",
    "h","\"",",","\"","a","r","g","u","m","e","n","t","s","\"",":","{","\"",
    "i","n","p","u","t">>
DocToolTail ==
  <<"\"",":","\"","*","*","*"," ","B","e","g","i","n"," ","P","a","t","c",
    "h","\\","n","+","x","\\","n","*","*","*"," ","E","n","d"," ","P","a",
    "t","c","h","\"","}","}","]","}">>
DocTool == DocToolHead \o DocToolTail
\* {"tool_calls":[{"name":"shell","arguments":{"command":"ls -la /tmp"}}]}
DocShellHead ==
  <<"{","\"","t","o","o","l","_","c","a","l","l","s","\"",":","[","{","\"",
    "n","a","m","e","\"",":","\"","s","h","e","l","l","\"",",","\"","a","r",
    "g","u","m","e","n","t","s","\"",":","{","\"","c","o","m","m","a","n",
    "d","\"",":","\"","l">>
DocShellTail ==
  <<"s"," ","-","l","a"," ","/","t","m","p","\"","}","}","]","}">>
DocShell == DocShellHead \o DocShellTail
\* {"tool_calls":[{"name":"apply_patch","arguments":{"input":"no patch"}}]}
DocBadHead ==
  <<"{","\"","t","o","o","l","_","c","a","l","l","s","\"",":","[","{","\"",
    "n","a","m","e","\"",":","\"","a","p","p","l","y","_","p","a","t","c",
    "h","\"",",","\"","a","r","g","u","m","e","n","t","s","\"",":","{","\"",
    "i","n","p","u","t">>
DocBadTail ==
  <<"\"",":","\"","n","o"," ","p","a","t","c","h","\"","}","}","]","}">>
DocBad == DocBadHead \o DocBadTail
\* {"message":"hi"}
DocMessage ==
  <<"{","\"","m","e","s","s","a","g","e","\"",":","\"","h","i","\"","}">>
NoPatchInput ==
  <<"n","o"," ","p","a","t","c","h">>
ShellCommand ==
  <<"l","s"," ","-","l","a"," ","/","t","m","p">>

JNull == [k |-> "null"]

\* tryParseJson over the texts the upstream can have accumulated: the parsed
\* document, or null when neither the text nor its outermost {...} span parses
tryParseJson(text) ==
  IF text = DocTool
    THEN [k |-> "obj", message |-> JAbsent,
          tool_calls |-> JArr(<<[name |-> JStr("apply_patch"),
                                 arguments |-> [k |-> "obj", input |-> JChars(BareBlock)]]>>)]
  ELSE IF text = DocShell
    THEN [k |-> "obj", message |-> JAbsent,
          tool_calls |-> JArr(<<[name |-> JStr("shell"),
                                 arguments |-> [k |-> "obj", command |-> JChars(ShellCommand)]]>>)]
  ELSE IF text = DocBad
    THEN [k |-> "obj", message |-> JAbsent,
          tool_calls |-> JArr(<<[name |-> JStr("apply_patch"),
                                 arguments |-> [k |-> "obj", input |-> JChars(NoPatchInput)]]>>)]
  ELSE IF text = DocMessage
    THEN [k |-> "obj", message |-> JChars(<<"h", "i">>), tool_calls |-> JAbsent]
  ELSE JNull

ReplyScripts ==
  { <<DocToolHead, DocToolTail>>, <<DocShellHead, DocShellTail>>,
    <<DocBadHead, DocBadTail>>, <<DocMessage>>, <<PlainText>>,
    <<PlainText, BareBlock>>, <<Unterminated>>, <<>> }

EmptyObject == [x \in {} |-> x]

\* writeSse(res, "response.created", { response: {} })
QCreated == [type |-> "response.created", response |-> EmptyObject]
QCompleted(rid) == [type |-> "response.completed", response |-> [id |-> rid]]
QApplyPatch(input) ==
  [type |-> "response.output_item.done",
   item |-> [type |-> "function_call", call_id |-> "call", name |-> "apply_patch",
             arguments |-> JsonText([input |-> input])]]
QErrorMessage(message) ==
  [type |-> "response.output_item.done",
   item |-> [type |-> "message", role |-> "assistant", text |-> message]]
\* the patch synthesized for intent.path
SynthesizedPatch == JStr("*** Begin Patch\n*** Update File: <intent.path>\n@@ ... *** End Patch")

\* the part of the request's state the helpers read and write
Handler == [out |-> qOut, finished |-> qFinished, ended |-> qEnded, emitted |-> qEmitted]

\* writeSse without the writableEnded guard
writeSse_NoGuard(h, ev) == [h EXCEPT !.out = Append(@, ev)]

writeSse(h, ev) == IF h.ended THEN h ELSE [h EXCEPT !.out = Append(@, ev)]

markFinished(h) == [h EXCEPT !.finished = TRUE, !.ended = TRUE]

InputOf(a) == IF a.k = "obj" /\ "input" \in DOMAIN a THEN a.input ELSE JAbsent

\* a tool call the loop of emitToolCallsAndEnd emits: apply_patch with both markers
ValidPatchCall(tc) ==
  /\ tc.name = JStr("apply_patch")
  /\ InputOf(tc.arguments).k = "chars"
  /\ Includes(InputOf(tc.arguments).v, BeginMarker)
  /\ Includes(InputOf(tc.arguments).v, EndMarker)

\* the synthesized patch written whenever there is an intent, emittedAnyTool unread
emitToolCallsAndEnd_AlwaysSynthesize(h, parsed, intent, rid) ==
  IF h.finished THEN h
  ELSE
    LET toolCalls == IF IsArr(parsed.tool_calls) THEN parsed.tool_calls.v ELSE <<>>
        valid == {i \in 1..Len(toolCalls) : ValidPatchCall(toolCalls[i])}
        h1 == IF valid = {} THEN h
              ELSE [writeSse(h, QApplyPatch(InputOf(toolCalls[Min(valid)].arguments)))
                      EXCEPT !.emitted = TRUE]
        h2 == IF intent THEN writeSse(h1, QApplyPatch(SynthesizedPatch)) ELSE h1
    IN markFinished(writeSse(h2, QCompleted(rid)))

emitToolCallsAndEnd(h, parsed, intent, rid) ==
  IF h.finished THEN h
  ELSE
    LET toolCalls == IF IsArr(parsed.tool_calls) THEN parsed.tool_calls.v ELSE <<>>
        valid == {i \in 1..Len(toolCalls) : ValidPatchCall(toolCalls[i])}
        h1 == IF valid = {} THEN h
              ELSE [writeSse(h, QApplyPatch(InputOf(toolCalls[Min(valid)].arguments)))
                      EXCEPT !.emitted = TRUE]
        h2 == IF ~h1.emitted /\ intent THEN writeSse(h1, QApplyPatch(SynthesizedPatch))
              ELSE h1
    IN markFinished(writeSse(h2, QCompleted(rid)))

\* the fallbackTimer callback
fallbackTimer(h, intent, rid) ==
  IF h.finished \/ h.emitted THEN h
  ELSE IF intent
    THEN markFinished(writeSse(writeSse(h, QApplyPatch(SynthesizedPatch)), QCompleted(rid)))
  ELSE h

\* onDelta's early parse, after fullText += delta
earlyParse(h, fullText, intent, rid) ==
  LET parsedEarly == tryParseJson(fullText)
  IN IF /\ Len(fullText) > 50
        /\ Includes(fullText, ToolCallsWord)
        /\ parsedEarly.k = "obj"
        /\ IsArr(parsedEarly.tool_calls)
        /\ \E i \in 1..Len(parsedEarly.tool_calls.v) :
              parsedEarly.tool_calls.v[i].name = JStr("apply_patch")
     THEN emitToolCallsAndEnd(h, parsedEarly, intent, rid)
     ELSE h

\* the code after the stream's promise resolved
afterStream(h, fullText, intent, rid) ==
  IF h.finished THEN h
  ELSE
    LET parsed == tryParseJson(fullText)
        patches == findPatchBlocks(fullText)
    IN IF parsed.k = "obj" /\ (Truthy(parsed.tool_calls) \/ Truthy(parsed.message))
         THEN emitToolCallsAndEnd(h, parsed, intent, rid)
       ELSE markFinished(writeSse(
              IF Len(patches) > 0 THEN writeSse(h, QApplyPatch(JChars(patches[1]))) ELSE h,
              QCompleted(rid)))

\* catch (err)
catchError(h, message) ==
  markFinished(writeSse(writeSse(h, QErrorMessage(message)), QCompleted("resp_err")))

InitQwen ==
  /\ qEnv \in BOOLEAN
  /\ qPc = "idle"
  /\ qIntent = FALSE
  /\ qFinished = FALSE
  /\ qEnded = FALSE
  /\ qClosed = FALSE
  /\ qEmitted = FALSE
  /\ qFullText = <<>>
  /\ qTimer = "unset"
  /\ qUp = "none"
  /\ qScript = <<>>
  /\ qSent = 0
  /\ qOut = <<>>

ParkedQwen == InitQwen /\ qEnv = TRUE

\* assign the helpers' result back to the request's state
Becomes(h) ==
  /\ qOut' = h.out
  /\ qFinished' = h.finished
  /\ qEnded' = h.ended
  /\ qEmitted' = h.emitted

\* the request arrives: response.created is written, then the env check; with
\* the credentials unset the throw lands in the catch at once
QwenRequest ==
  /\ qPc = "idle"
  /\ \E intent \in BOOLEAN : qIntent' = intent
  /\ LET h == writeSse(Handler, QCreated)
     IN IF qEnv
        THEN Becomes(h) /\ qPc' = "login"
        ELSE Becomes(catchError(h, "QWEN_EMAIL and QWEN_PASSWORD must be set in env"))
             /\ qPc' = "done"
  /\ UNCHANGED <<qEnv, qClosed, qFullText, qTimer, qUp, qScript, qSent>>
  /\ UNCHANGED qwenFrame

\* res "close" before res.end(): the client went away
QwenClientClose ==
  /\ qPc # "idle"
  /\ ~qEnded
  /\ ~qClosed
  /\ qClosed' = TRUE
  /\ qFinished' = TRUE
  /\ UNCHANGED <<qEnv, qPc, qIntent, qEnded, qEmitted, qFullText, qTimer, qUp,
                 qScript, qSent, qOut>>
  /\ UNCHANGED qwenFrame

QwenLoginResolves ==
  /\ qPc = "login"
  /\ qPc' = "newchat"
  /\ UNCHANGED <<qEnv, qIntent, qFinished, qEnded, qClosed, qEmitted, qFullText,
                 qTimer, qUp, qScript, qSent, qOut>>
  /\ UNCHANGED qwenFrame

\* startNewChat resolves: the fallback timer is set and streamQwenMessage posts
QwenNewChatResolves ==
  /\ qPc = "newchat"
  /\ qPc' = "posting"
  /\ qTimer' = "armed"
  /\ UNCHANGED <<qEnv, qIntent, qFinished, qEnded, qClosed, qEmitted, qFullText,
                 qUp, qScript, qSent, qOut>>
  /\ UNCHANGED qwenFrame

\* loginWithCache, startNewChat or the streaming POST rejects: catch (err)
QwenCallRejects ==
  /\ qPc \in {"login", "newchat", "posting"}
  /\ Becomes(catchError(Handler, "Request failed"))
  /\ qPc' = "done"
  /\ UNCHANGED <<qEnv, qIntent, qClosed, qFullText, qTimer, qUp, qScript, qSent>>
  /\ UNCHANGED qwenFrame

\* the streaming POST answers: the data, end and error handlers are attached
QwenStreamOpens ==
  /\ qPc = "posting"
  /\ qPc' = "streaming"
  /\ qUp' = "open"
  /\ \E script \in ReplyScripts : qScript' = script
  /\ UNCHANGED <<qEnv, qIntent, qFinished, qEnded, qClosed, qEmitted, qFullText,
                 qTimer, qSent, qOut>>
  /\ UNCHANGED qwenFrame

\* a chunk arrives and its delta reaches onDelta
QwenDelta ==
  /\ qUp = "open"
  /\ qSent < Len(qScript)
  /\ qSent' = qSent + 1
  /\ IF qFinished
     THEN UNCHANGED <<qFullText, qOut, qFinished, qEnded, qEmitted>>
     ELSE /\ qFullText' = qFullText \o qScript[qSent + 1]
          /\ \E rid \in RespIds :
               Becomes(earlyParse(Handler, qFullText \o qScript[qSent + 1], qIntent, rid))
  /\ UNCHANGED <<qEnv, qPc, qIntent, qClosed, qTimer, qUp, qScript>>
  /\ UNCHANGED qwenFrame

\* the stream ends: the promise resolves and the handler runs to its end
QwenUpstreamEnd ==
  /\ qUp = "open"
  /\ qSent = Len(qScript)
  /\ qUp' = "ended"
  /\ qPc' = "done"
  /\ \E rid \in RespIds : Becomes(afterStream(Handler, qFullText, qIntent, rid))
  /\ UNCHANGED <<qEnv, qIntent, qClosed, qFullText, qTimer, qScript, qSent>>
  /\ UNCHANGED qwenFrame

\* the stream fails: the promise rejects and the catch runs
QwenUpstreamError ==
  /\ qUp = "open"
  /\ qUp' = "errored"
  /\ qPc' = "done"
  /\ Becomes(catchError(Handler, "aborted"))
  /\ UNCHANGED <<qEnv, qIntent, qClosed, qFullText, qTimer, qScript, qSent>>
  /\ UNCHANGED qwenFrame

\* 8 seconds after it was set the fallback timer fires (it is never cleared)
QwenTimerFires ==
  /\ qTimer = "armed"
  /\ qTimer' = "fired"
  /\ \E rid \in RespIds : Becomes(fallbackTimer(Handler, qIntent, rid))
  /\ UNCHANGED <<qEnv, qPc, qIntent, qClosed, qFullText, qUp, qScript, qSent>>
  /\ UNCHANGED qwenFrame


(***************************************************************************)
(* Properties of the Qwen bridge.                                          *)
(***************************************************************************)
QCompletedAt == {i \in 1..Len(qOut) : qOut[i].type = "response.completed"}

\* C5: under every interleaving of deltas, the fallback timer, upstream end,
\* upstream error and client close, response.completed is written at most once
\* and nothing is written after it.
C5_NothingAfterCompleted == \A i \in QCompletedAt : i = Len(qOut)

\* the early parse completed the response, then the timer fired and the stream failed
C5_Witness ==
  /\ qEmitted
  /\ QCompletedAt # {}
  /\ qTimer = "fired"
  /\ qUp = "errored"
  /\ qPc = "done"

\* C6: once the client connection has closed, no further event is written.
C6_NoWriteAfterClose == [][qClosed => qOut' = qOut]_vars

\* C7: every response.completed carries the identifier of the request's
\* response.created and a zero-valued usage structure.
C7_SameIdZeroUsage ==
  \A i \in QCompletedAt :
    /\ "id" \in DOMAIN qOut[1].response
    /\ qOut[i].response.id = qOut[1].response.id
    /\ "usage" \in DOMAIN qOut[i].response
    /\ qOut[i].response.usage.total_tokens = 0

\* C8: every request whose client stays connected eventually has
\* response.completed written and its response ended.
C8_EventuallyCompleted ==
  (qPc # "idle") ~> (qClosed \/ (qEnded /\ QCompletedAt # {}))

\* the apply_patch function_call items written, by position
PatchItemsAt ==
  {i \in 1..Len(qOut) :
     /\ qOut[i].type = "response.output_item.done"
     /\ qOut[i].item.type = "function_call"
     /\ qOut[i].item.name = "apply_patch"}
SynthesizedAt == {i \in PatchItemsAt : qOut[i] = QApplyPatch(SynthesizedPatch)}

\* C35: whatever the interleaving of deltas, early parse, fallback timer,
\* upstream end and error, a request's response holds at most one apply_patch
\* function_call item, and never a synthesized patch next to a patch taken from
\* the model's reply.
C35_AtMostOnePatch ==
  /\ Cardinality(PatchItemsAt) <= 1
  /\ (SynthesizedAt # {} => PatchItemsAt = SynthesizedAt)

\* with an update intent, the early parse wrote the model's patch, and the
\* timer fired and the stream ended afterwards: still one item, the model's
C35_Witness ==
  /\ qIntent /\ qTimer = "fired" /\ qUp = "ended"
  /\ Cardinality(PatchItemsAt) = 1
  /\ SynthesizedAt = {}

\* C29: when the upstream stream has ended with a text that no strategy of
\* tryParseJson parses and that holds no complete patch block, the raw text is
\* written as one assistant message item before response.completed.
C29_PlainTextBecomesMessage ==
  (/\ qUp = "ended" /\ ~qClosed /\ qTimer # "fired"
   /\ qFullText # <<>>
   /\ tryParseJson(qFullText) = JNull
   /\ findPatchBlocks(qFullText) = <<>>)
  => /\ Cardinality({i \in 1..Len(qOut) :
                       /\ qOut[i].type = "response.output_item.done"
                       /\ qOut[i].item.type = "message"
                       /\ qOut[i].item.text = JChars(qFullText)}) = 1
     /\ qOut[Len(qOut)].type = "response.completed"

(***************************************************************************)
(* The login callback listener (startLoginServerAndAuth).                  *)
(***************************************************************************)
MaxRequests == 3

NoFile == [k |-> "nofile"]
SessionState == "state_Y"
\* what a callback's query string may carry
CallbackCodes == {JAbsent, JStr("code_1"), JStr("code_2")}
CallbackStates == {JAbsent, JStr("state_X"), JStr(SessionState)}
OtherPaths == {"/success", "/favicon.ico"}

\* how the token endpoint may answer the code exchange: the token set, a 2xx
\* answer lacking id_token or refresh_token, or a failure (non-2xx, bad JSON)
CodeExchangeAnswers == {"tokens", "no_id_token", "no_refresh_token", "error"}
ApiKeyAnswers == {"key", "error"}

\* the guard mistaken for a check of the code alone
callbackRejected_CodeOnly(code, gotState, state) == ~Truthy(code)

\* if (!code || gotState !== state)
callbackRejected(code, gotState, state) == ~Truthy(code) \/ gotState # JStr(state)

\* one effect of the listener: the API-key exchange posted for request req, the
\* session file written with rec, the redirect sent, the server closed, the
\* function returned
Effect(e, req, rec) == [e |-> e, req |-> req, rec |-> rec]

\* the redirect mistaken for preceding the write
successEffects_RedirectFirst(i, rec) ==
  <<Effect("redirect", i, NoFile), Effect("write", i, rec)>>

\* saveTokens(...), then res.statusCode = 302 ... res.end()
successEffects(i, rec) == <<Effect("write", i, rec), Effect("redirect", i, NoFile)>>

\* the check of refresh_token left out
exchangeCodeForTokens_IdTokenOnly(answer) == answer \in {"tokens", "no_refresh_token"}

\* exchangeCodeForTokens: resolves only with id_token and refresh_token present
exchangeCodeForTokens(answer) == answer = "tokens"

\* the access token written only along with an API key
SessionRecord_TokenWithKeyOnly(code, apiKey) ==
  [token |-> IF apiKey = JAbsent THEN JAbsent ELSE <<"access_token", code.v>>,
   accountId |-> "acct", apiKey |-> apiKey]

\* saveTokens / writeSessionJson: the record written for a code's token set
SessionRecord(code, apiKey) ==
  [token |-> <<"access_token", code.v>>, accountId |-> "acct", apiKey |-> apiKey]

InitLogin ==
  /\ lgServer = "init"
  /\ lgState = SessionState
  /\ lgReqs = <<>>
  /\ lgRedeemed = {}
  /\ lgExchangeCalls = 0
  /\ lgExchangesOk = 0
  /\ lgWrites = 0
  /\ lgFile = NoFile
  /\ lgTimers = 0
  /\ lgEffects = <<>>
  /\ lgReturned = FALSE

ParkedLogin == InitLogin

\* the server binds (default port, or an ephemeral one), the redirect URI is
\* fixed and the browser is opened at the authorize URL
LgListen ==
  /\ lgServer = "init"
  /\ lgServer' = "listening"
  /\ UNCHANGED <<lgState, lgReqs, lgRedeemed, lgExchangeCalls, lgExchangesOk, lgWrites,
                 lgFile, lgTimers, lgEffects, lgReturned>>
  /\ UNCHANGED loginFrame

\* GET /auth/callback?code&state: 400, or the code exchange is posted
LgCallback ==
  /\ lgServer = "listening"
  /\ Len(lgReqs) < MaxRequests
  /\ \E code \in CallbackCodes, gotState \in CallbackStates :
       IF callbackRejected(code, gotState, lgState)
       THEN /\ lgReqs' = Append(lgReqs, [path |-> "/auth/callback", code |-> code,
                                          gotState |-> gotState, pc |-> "done",
                                          status |-> 400, apiKey |-> JAbsent, answer |-> "none"])
            /\ UNCHANGED lgExchangeCalls
       ELSE /\ lgReqs' = Append(lgReqs, [path |-> "/auth/callback", code |-> code,
                                          gotState |-> gotState, pc |-> "exchanging",
                                          status |-> 0, apiKey |-> JAbsent, answer |-> "none"])
            /\ lgExchangeCalls' = lgExchangeCalls + 1
  /\ UNCHANGED <<lgServer, lgState, lgRedeemed, lgExchangesOk, lgWrites, lgFile, lgTimers,
                 lgEffects, lgReturned>>
  /\ UNCHANGED loginFrame

\* GET /success (200) or any other path (404)
LgOtherRequest ==
  /\ lgServer = "listening"
  /\ Len(lgReqs) < MaxRequests
  /\ \E path \in OtherPaths :
       lgReqs' = Append(lgReqs, [path |-> path, code |-> JAbsent, gotState |-> JAbsent,
                                 pc |-> "done",
                                 status |-> IF path = "/success" THEN 200 ELSE 404,
                                 apiKey |-> JAbsent, answer |-> "none"])
  /\ UNCHANGED <<lgServer, lgState, lgRedeemed, lgExchangeCalls, lgExchangesOk, lgWrites,
                 lgFile, lgTimers, lgEffects, lgReturned>>
  /\ UNCHANGED loginFrame

\* the token endpoint answers a code exchange (a code is redeemed once only):
\* on success the API-key exchange is posted, otherwise the catch answers 500
LgCodeExchangeSettles ==
  \E i \in 1..Len(lgReqs) :
    /\ lgReqs[i].pc = "exchanging"
    /\ \E answer \in CodeExchangeAnswers :
         /\ answer # "error" => lgReqs[i].code \notin lgRedeemed
         /\ IF exchangeCodeForTokens(answer)
            THEN /\ lgReqs' = [lgReqs EXCEPT ![i].pc = "apikey", ![i].answer = answer]
                 /\ lgExchangesOk' = lgExchangesOk + 1
                 /\ lgEffects' = Append(lgEffects, Effect("apikey", i, NoFile))
            ELSE /\ lgReqs' = [lgReqs EXCEPT ![i].pc = "done", ![i].status = 500,
                                             ![i].answer = answer]
                 /\ UNCHANGED <<lgExchangesOk, lgEffects>>
         /\ lgRedeemed' = IF answer = "error" THEN lgRedeemed
                          ELSE lgRedeemed \cup {lgReqs[i].code}
    /\ UNCHANGED <<lgServer, lgState, lgExchangeCalls, lgWrites, lgFile, lgTimers,
                   lgReturned>>
    /\ UNCHANGED loginFrame

\* the API-key exchange settles either way: saveTokens writes session.json, the
\* 302 to /success is sent and the server's close is scheduled
LgApiKeySettles ==
  \E i \in 1..Len(lgReqs) :
    /\ lgReqs[i].pc = "apikey"
    /\ \E answer \in ApiKeyAnswers :
         LET apiKey == IF answer = "key" THEN JStr("sk-key") ELSE JAbsent
         IN /\ lgFile' = SessionRecord(lgReqs[i].code, apiKey)
            /\ lgReqs' = [lgReqs EXCEPT ![i].pc = "done", ![i].status = 302,
                                        ![i].apiKey = apiKey]
            /\ lgEffects' =
                 lgEffects \o successEffects(i, SessionRecord(lgReqs[i].code, apiKey))
    /\ lgWrites' = lgWrites + 1
    /\ lgTimers' = lgTimers + 1
    /\ UNCHANGED <<lgServer, lgState, lgRedeemed, lgExchangeCalls, lgExchangesOk,
                   lgReturned>>
    /\ UNCHANGED loginFrame

\* 250 ms after a success: server.close()
LgCloseTimer ==
  /\ lgTimers > 0
  /\ lgTimers' = lgTimers - 1
  /\ lgServer' = "closed"
  /\ lgEffects' = IF lgServer = "closed" THEN lgEffects
                  ELSE Append(lgEffects, Effect("close", 0, NoFile))
  /\ UNCHANGED <<lgState, lgReqs, lgRedeemed, lgExchangeCalls, lgExchangesOk, lgWrites,
                 lgFile, lgReturned>>
  /\ UNCHANGED loginFrame

\* await new Promise((resolve) => server.on('close', resolve)): the server emits
\* 'close' once it has stopped listening and its connections have ended
LgReturn ==
  /\ lgServer = "closed"
  /\ \A i \in 1..Len(lgReqs) : lgReqs[i].pc = "done"
  /\ ~lgReturned
  /\ lgReturned' = TRUE
  /\ lgEffects' = Append(lgEffects, Effect("return", 0, NoFile))
  /\ UNCHANGED <<lgServer, lgState, lgReqs, lgRedeemed, lgExchangeCalls, lgExchangesOk,
                 lgWrites, lgFile, lgTimers>>
  /\ UNCHANGED loginFrame

(***************************************************************************)
(* Properties of the login callback listener.                              *)
(***************************************************************************)
LastReq(reqs) == reqs[Len(reqs)]
InvalidCallback(r) ==
  r.path = "/auth/callback" /\ (r.code = JAbsent \/ r.gotState # JStr(SessionState))

\* C9: a callback whose state differs from the session's, or that carries no
\* code, is answered 400, posts no token exchange, persists no credential and
\* leaves the listener running.
C9_InvalidCallbackRejected ==
  [][(Len(lgReqs') = Len(lgReqs) + 1 /\ InvalidCallback(LastReq(lgReqs'))) =>
       /\ LastReq(lgReqs').status = 400
       /\ LastReq(lgReqs').pc = "done"
       /\ lgExchangeCalls' = lgExchangeCalls
       /\ lgFile' = lgFile
       /\ lgWrites' = lgWrites
       /\ lgTimers' = lgTimers
       /\ lgServer' = "listening"]_vars

\* a callback with the wrong state got 400, and a later one with the right
\* state and a code completed the login
C9_Witness ==
  /\ Len(lgReqs) >= 2
  /\ lgReqs[1].gotState = JStr("state_X") /\ lgReqs[1].code # JAbsent
  /\ lgReqs[1].status = 400
  /\ lgReqs[2].path = "/auth/callback" /\ lgReqs[2].status = 302
  /\ lgFile # NoFile

\* C10: within one session at most one code exchange is performed, at most one
\* succeeds, and the credential is written at most once.
C10_SingleExchange ==
  /\ lgExchangeCalls <= 1
  /\ lgExchangesOk <= 1
  /\ lgWrites <= 1

\* the positions of the effects of kind e of request req
EffectsAt(e, req) ==
  {k \in 1..Len(lgEffects) : lgEffects[k].e = e /\ lgEffects[k].req = req}

\* C11: once a code exchange has failed and the browser got its 500, the
\* listener shuts down and startLoginServerAndAuth returns.
C11_ReturnsAfterFailure ==
  (\E i \in 1..Len(lgReqs) : lgReqs[i].status = 500) ~> lgReturned

FailedExchangeAnswers == {"no_id_token", "no_refresh_token", "error"}

\* C14: a code exchange answered without id_token, without refresh_token or by a
\* failure makes the handler answer 500, post no API-key exchange and write no
\* session file.
C14_FailedExchangeTouchesNothing ==
  \A i \in 1..Len(lgReqs) :
    lgReqs[i].answer \in FailedExchangeAnswers =>
      /\ lgReqs[i].pc = "done" /\ lgReqs[i].status = 500
      /\ EffectsAt("apikey", i) = {}
      /\ EffectsAt("write", i) = {}

\* two later exchanges failed (no refresh_token; a failure), and the file an
\* earlier callback wrote is still the one on disk
C14_Witness ==
  /\ Len(lgReqs) = 3
  /\ lgReqs[1].status = 302 /\ lgReqs[1].code = JStr("code_1")
  /\ lgReqs[2].answer = "no_refresh_token"
  /\ lgReqs[3].answer = "error"
  /\ lgFile = SessionRecord(JStr("code_1"), lgReqs[1].apiKey)

(***************************************************************************)
(* The scripted /v1/responses server (MIGRATION.md): one synchronous       *)
(* handler that reads, and on the first six requests of a conversation     *)
(* advances, the conversation's step.                                      *)
(***************************************************************************)
MaxScripted == 7

\* the headers a request may bear
ConversationIdHeaders == {JAbsent, JStr("conv_a")}
SessionIdHeaders == {JAbsent, JStr("conv_a"), JStr("sess_b")}

\* req.headers["conversation_id"] || req.headers["session_id"] || "global"
convIdOf(conversationId, sessionId) == OrElse(OrElse(conversationId, sessionId), JStr("global")).v

\* convStep.get(convId) ?? 0
stepOf(map, convId) == IF convId \in DOMAIN map THEN map[convId] ELSE 0

\* the output item of each branch of the script
scriptedItem(step) ==
  CASE step = 0 -> [type |-> "local_shell_call", call_id |-> "call_1"]
    [] step = 1 -> [type |-> "function_call", call_id |-> "call_update_plan_1"]
    [] step = 2 -> [type |-> "local_shell_call", call_id |-> "call_2"]
    [] step = 3 -> [type |-> "local_shell_call", call_id |-> "call_3"]
    [] step = 4 -> [type |-> "function_call", call_id |-> "call_update_plan_2"]
    [] step = 5 -> [type |-> "message", call_id |-> "none"]
    [] OTHER -> [type |-> "message", call_id |-> "saved"]

\* the step written back without advancing
stepAfter_Stuck(map, convId, step) ==
  IF step <= 5 THEN [k \in DOMAIN map \cup {convId} |-> IF k = convId THEN step ELSE map[k]]
  ELSE map

\* convStep.set(convId, step + 1) in the branches 0..5; the last branch sets nothing
stepAfter(map, convId, step) ==
  IF step <= 5
  THEN [k \in DOMAIN map \cup {convId} |-> IF k = convId THEN step + 1 ELSE map[k]]
  ELSE map

InitScripted ==
  /\ convStep = [k \in {} |-> 0]
  /\ scSeen = <<>>

ParkedScripted == InitScripted

\* app.post("/v1/responses"): the handler has no await, so it runs to res.end()
\* before any other request's handler starts
ScriptedRequest ==
  /\ Len(scSeen) < MaxScripted
  /\ \E conversationId \in ConversationIdHeaders, sessionId \in SessionIdHeaders :
       LET convId == convIdOf(conversationId, sessionId)
           step == stepOf(convStep, convId)
       IN /\ scSeen' = Append(scSeen, [key |-> convId, step |-> step,
                                       item |-> scriptedItem(step)])
          /\ convStep' = stepAfter(convStep, convId, step)
  /\ UNCHANGED scriptedFrame

RequestsFor(key) == {i \in 1..Len(scSeen) : scSeen[i].key = key}

\* C15: no two requests of one conversation observe the same step below 6, and
\* a conversation's counter is min(requests served for it, 6).
C15_StepCounterAtomic ==
  /\ \A i, j \in 1..Len(scSeen) :
       (i # j /\ scSeen[i].key = scSeen[j].key /\ scSeen[i].step < 6) =>
         scSeen[i].step # scSeen[j].step
  /\ \A key \in {"conv_a", "sess_b", "global"} :
       stepOf(convStep, key) =
         (IF Cardinality(RequestsFor(key)) < 6 THEN Cardinality(RequestsFor(key)) ELSE 6)

\* one conversation has been served past the end of its script: its seventh
\* request observes step 6 and the counter stays at 6
C15_Witness ==
  /\ Cardinality(RequestsFor("conv_a")) = 7
  /\ scSeen[7].step = 6 /\ convStep["conv_a"] = 6

(***************************************************************************)
(* The CLI's credential files (test_gpt.js): ~/.codex/auth.json and        *)
(* session.json, their readers, and main.                                  *)
(***************************************************************************)
MaxOtherWrites == 1

\* what a credential file may hold: nothing (NoFile), text that is not JSON, the
\* zero bytes left by an open that truncates, or a JSON object
Garbage == [k |-> "garbage"]
Truncated == [k |-> "empty"]
JsonFile(raw) == [k |-> "json", v |-> raw]

Tokens(accessToken, accountId, idToken) ==
  [k |-> "obj", access_token |-> accessToken, account_id |-> accountId, id_token |-> idToken]

\* raw?.tokens?.f
TokensField(raw, f) == IF raw.tokens.k = "obj" THEN raw.tokens[f] ELSE JAbsent

JwtWithAccount == JStr("hdr.eyJjaGF0Z3B0X2FjY291bnRfaWQiOiJhY2N0X2NsYWltIn0.sig")
JwtNoAccount == JStr("hdr.e30.sig")

\* parseJwtClaims(idToken)['https://api.openai.com/auth'] || {}: the payload of
\* the two tokens above, decoded
parseJwtClaims(rawJwt) ==
  IF rawJwt = JwtWithAccount THEN [chatgpt_account_id |-> JStr("acct_claim")]
  ELSE [chatgpt_account_id |-> JAbsent]

\* String.prototype.trim over the strings used here
trim(str) ==
  CASE str \in BlankStrings -> ""
    [] str = " sk-home " -> "sk-home"
    [] OTHER -> str

\* the object writeSessionJson serializes (JSON.stringify drops undefined)
SessionData(token, accountId, apiKey) ==
  [token |-> token, accountId |-> accountId, apiKey |-> apiKey, tokens |-> JAbsent,
   access_token |-> JAbsent, OPENAI_API_KEY |-> JAbsent]

SessionFiles ==
  {NoFile, Garbage} \cup
  {JsonFile([token |-> t, accountId |-> a, apiKey |-> key, tokens |-> ts,
             access_token |-> JAbsent, OPENAI_API_KEY |-> ok]) :
     t \in {JAbsent, JStr("tok")}, a \in {JAbsent, JStr("acct_stored")},
     key \in {JAbsent, JStr("sk-sess")},
     ts \in {JAbsent, Tokens(JAbsent, JAbsent, JwtWithAccount),
             Tokens(JStr("at_legacy"), JStr("acct_legacy"), JwtWithAccount)},
     ok \in {JAbsent, JStr(" sk-home ")}}

AuthFiles ==
  {NoFile, Garbage} \cup
  {JsonFile([token |-> JAbsent, accountId |-> JAbsent, apiKey |-> JAbsent, tokens |-> ts,
             access_token |-> at, OPENAI_API_KEY |-> ok]) :
     ts \in {JAbsent} \cup
            {Tokens(x, y, z) : x \in {JAbsent, JStr("at_home")},
                               y \in {JAbsent, JStr("acct_stored")},
                               z \in {JAbsent, JwtWithAccount, JwtNoAccount}},
     at \in {JAbsent, JStr("at_top")},
     ok \in {JAbsent, JStr("   "), JStr(" sk-home ")}}

\* the records a login can persist (the token endpoint's answer may lack
\* access_token, which exchangeCodeForTokens does not check)
LoginRecords ==
  {SessionData(t, JStr("acct_claim"), key) :
     t \in {JAbsent, JStr("tok_new")}, key \in {JAbsent, JStr("sk-new")}}
\* what another process's writeSessionJson writes
OtherRecords == {SessionData(JStr("tok_other"), JAbsent, JAbsent)}

Unread == [k |-> "unread"]
Idle == [k |-> "idle"]

Creds(token, accountId, apiKey) ==
  [k |-> "obj", token |-> token, accountId |-> accountId, apiKey |-> apiKey]

readSessionJson(file) ==
  IF file.k # "json" THEN JNull
  ELSE LET raw == file.v
           token1 == IF IsStr(raw.token) THEN raw.token ELSE JAbsent
           acct1 == IF IsStr(raw.accountId) THEN raw.accountId ELSE JAbsent
           key1 == IF IsStr(raw.apiKey) THEN raw.apiKey ELSE JAbsent
           token2 == IF Truthy(token1) THEN token1
                     ELSE OrElse(OrElse(TokensField(raw, "access_token"), raw.access_token),
                                 JAbsent)
           acct2 == IF Truthy(acct1) THEN acct1
                    ELSE OrElse(TokensField(raw, "account_id"), JAbsent)
           claimed == parseJwtClaims(TokensField(raw, "id_token")).chatgpt_account_id
           acct3 == IF ~Truthy(acct2) /\ Truthy(TokensField(raw, "id_token")) /\ IsStr(claimed)
                    THEN claimed ELSE acct2
           key2 == IF ~Truthy(key1) /\ IsStr(raw.OPENAI_API_KEY)
                      /\ trim(raw.OPENAI_API_KEY.v) # ""
                    THEN JStr(trim(raw.OPENAI_API_KEY.v)) ELSE key1
       IN IF Truthy(token2) THEN Creds(token2, acct3, key2) ELSE JNull

readAuthFromHome(file) ==
  IF file.k # "json" THEN JNull
  ELSE LET raw == file.v
           apiKey == IF IsStr(raw.OPENAI_API_KEY) /\ trim(raw.OPENAI_API_KEY.v) # ""
                     THEN JStr(trim(raw.OPENAI_API_KEY.v)) ELSE JAbsent
           token == IF Truthy(TokensField(raw, "access_token"))
                    THEN TokensField(raw, "access_token") ELSE JAbsent
           claimed == parseJwtClaims(TokensField(raw, "id_token")).chatgpt_account_id
           acct1 == IF Truthy(TokensField(raw, "id_token")) /\ IsStr(claimed)
                    THEN claimed ELSE JAbsent
           acct2 == IF ~Truthy(acct1) /\ Truthy(TokensField(raw, "account_id"))
                    THEN TokensField(raw, "account_id") ELSE acct1
       IN IF Truthy(apiKey) \/ Truthy(token) THEN Creds(token, acct2, apiKey) ELSE JNull

\* the guard taken away
credsAccepted_Always(creds) == TRUE

\* askQuestion: if (!session || (!session.apiKey && !session.token)) throw
credsAccepted(creds) ==
  ~(creds = JNull \/ (~Truthy(creds.apiKey) /\ ~Truthy(creds.token)))

\* main's --import-auth block: the file written to session.json, or exit(1)
importAuth(file) ==
  IF file.k # "json" THEN [k |-> "exit"]
  ELSE LET raw == file.v
           apiKey == IF IsStr(raw.OPENAI_API_KEY) /\ trim(raw.OPENAI_API_KEY.v) # ""
                     THEN JStr(trim(raw.OPENAI_API_KEY.v)) ELSE JAbsent
           token == OrElse(TokensField(raw, "access_token"), raw.access_token)
           claimed == parseJwtClaims(TokensField(raw, "id_token")).chatgpt_account_id
           acct == IF ~Truthy(TokensField(raw, "account_id"))
                      /\ Truthy(TokensField(raw, "id_token")) /\ IsStr(claimed)
                   THEN claimed ELSE TokensField(raw, "account_id")
       IN IF ~Truthy(token) THEN [k |-> "exit"]
          ELSE JsonFile(SessionData(token, acct, apiKey))

InitCli ==
  /\ clAuth \in AuthFiles
  /\ clSession \in SessionFiles
  /\ clArgs \in [relogin : BOOLEAN, importAuth : BOOLEAN]
  \* with usable home credentials main looks at neither the flags nor session.json
  /\ readAuthFromHome(clAuth) # JNull =>
       clSession = NoFile /\ clArgs = [relogin |-> FALSE, importAuth |-> FALSE]
  /\ clPc = "start"
  /\ clHome = Unread
  /\ clReads = <<>>
  /\ clSent = {}
  /\ clWriter = Idle
  /\ clWrites = 0

ParkedCli ==
  /\ clAuth = NoFile
  /\ clSession = NoFile
  /\ clArgs = [relogin |-> FALSE, importAuth |-> FALSE]
  /\ clPc = "start"
  /\ clHome = Unread
  /\ clReads = <<>>
  /\ clSent = {}
  /\ clWriter = Idle
  /\ clWrites = 0

\* await askQuestion(question, creds): the guard, then the first upstream request
Asks(creds) ==
  IF credsAccepted(creds)
  THEN clPc' = "asked" /\ clSent' = clSent \cup {creds}
  ELSE clPc' = "failed" /\ UNCHANGED clSent

\* main from its start to its first await: readAuthFromHome, the import block,
\* readSessionJson, and then the login or askQuestion
ClMainStart ==
  /\ clPc = "start"
  /\ LET home == readAuthFromHome(clAuth)
         imported == IF clArgs.importAuth THEN importAuth(clAuth) ELSE [k |-> "skip"]
         file == IF imported.k = "json" THEN imported ELSE clSession
         session == readSessionJson(file)
     IN /\ clHome' = home
        /\ IF home # JNull
           THEN Asks(home) /\ UNCHANGED <<clSession, clReads>>
           ELSE IF imported.k = "exit"
           THEN clPc' = "exit" /\ UNCHANGED <<clSession, clReads, clSent>>
           ELSE /\ clSession' = file
                /\ clReads' = Append(clReads, [saw |-> file, got |-> session])
                /\ IF clArgs.relogin \/ session = JNull \/ ~Truthy(session.token)
                   THEN clPc' = "login" /\ UNCHANGED clSent
                   ELSE Asks(session)
  /\ UNCHANGED <<clAuth, clArgs, clWriter, clWrites>>
  /\ UNCHANGED cliFrame

\* inside startLoginServerAndAuth: the callback handler's saveTokens
ClLoginSaves ==
  /\ clPc = "login"
  /\ \E rec \in LoginRecords : clSession' = JsonFile(rec)
  /\ clPc' = "saved"
  /\ UNCHANGED <<clAuth, clArgs, clHome, clReads, clSent, clWriter, clWrites>>
  /\ UNCHANGED cliFrame

\* startLoginServerAndAuth returns: session = readSessionJson(); askQuestion
ClLoginReturns ==
  /\ clPc = "saved"
  /\ LET session == readSessionJson(clSession)
     IN /\ clReads' = Append(clReads, [saw |-> clSession, got |-> session])
        /\ Asks(session)
  /\ UNCHANGED <<clAuth, clSession, clArgs, clHome, clWriter, clWrites>>
  /\ UNCHANGED cliFrame

\* another process's fs.writeFileSync(sessionFilePath(), ...): the open truncates
ClOtherWriteOpens ==
  /\ clWriter = Idle
  /\ clWrites < MaxOtherWrites
  /\ \E rec \in OtherRecords : clWriter' = rec
  /\ clSession' = Truncated
  /\ clWrites' = clWrites + 1
  /\ UNCHANGED <<clAuth, clArgs, clPc, clHome, clReads, clSent>>
  /\ UNCHANGED cliFrame

\* ... and the write puts the record's text
ClOtherWriteData ==
  /\ clWriter # Idle
  /\ clSession' = JsonFile(clWriter)
  /\ clWriter' = Idle
  /\ UNCHANGED <<clAuth, clArgs, clPc, clHome, clReads, clSent, clWrites>>
  /\ UNCHANGED cliFrame

(***************************************************************************)
(* Properties of the credential files and main.                            *)
(***************************************************************************)
\* C16: readSessionJson never observes a file that a write in progress has
\* emptied or half-written: each read sees a complete earlier or later record.
C16_ReaderSeesWholeRecord ==
  \A i \in 1..Len(clReads) : clReads[i].saw # Truncated

\* the access token and the API key a credential file carries, by its format
FileHasToken(file) ==
  file.k = "json" /\
    (Truthy(file.v.token) \/ Truthy(TokensField(file.v, "access_token"))
       \/ Truthy(file.v.access_token))
FileHasKey(file) ==
  file.k = "json" /\
    (Truthy(file.v.apiKey) \/
       (IsStr(file.v.OPENAI_API_KEY) /\ file.v.OPENAI_API_KEY.v \notin BlankStrings))
CredsUsable(creds) == creds # JNull /\ (Truthy(creds.token) \/ Truthy(creds.apiKey))

\* C17: a credential file is read as usable exactly when it carries a non-empty
\* access token or a non-empty API key, and askQuestion sends requests only
\* with usable credentials.
C17_UsableIffTokenOrKey ==
  /\ clHome # Unread =>
       (clHome # JNull <=>
          (FileHasKey(clAuth) \/
             (clAuth.k = "json" /\ Truthy(TokensField(clAuth.v, "access_token")))))
  /\ \A i \in 1..Len(clReads) :
       clReads[i].got # JNull <=> (FileHasToken(clReads[i].saw) \/ FileHasKey(clReads[i].saw))
  /\ \A creds \in clSent : CredsUsable(creds)

\* the account id the file's id_token claims (JAbsent when it claims none)
ClaimedAccount(file) ==
  IF file.k = "json" /\ Truthy(TokensField(file.v, "id_token"))
  THEN parseJwtClaims(TokensField(file.v, "id_token")).chatgpt_account_id
  ELSE JAbsent

\* C18: when the stored id_token claims an account id, the read returns that
\* account id, whatever account id the file stores explicitly.
C18_ClaimedAccountPreferred ==
  /\ (clHome # Unread /\ clHome # JNull /\ IsStr(ClaimedAccount(clAuth))) =>
       clHome.accountId = ClaimedAccount(clAuth)
  /\ \A i \in 1..Len(clReads) :
       (clReads[i].got # JNull /\ IsStr(ClaimedAccount(clReads[i].saw))) =>
         clReads[i].got.accountId = ClaimedAccount(clReads[i].saw)

\* C19: every upstream request is sent with credentials that carry an access
\* token or an API key and that the latest read returned; when the read
\* returned none, main went through the login or askQuestion failed first.
C19_NoRequestWithoutCredentials ==
  /\ \A creds \in clSent :
       /\ CredsUsable(creds)
       /\ creds = clHome \/ (clReads # <<>> /\ creds = clReads[Len(clReads)].got)
  /\ clPc = "asked" => clSent # {}
  /\ clPc = "failed" => clSent = {}

\* after a login whose record carried no access token, the second read returned
\* nothing and askQuestion failed without sending a request
C19_Witness ==
  /\ clPc = "failed"
  /\ Len(clReads) = 2
  /\ clReads[2].saw \in {JsonFile(rec) : rec \in LoginRecords}
  /\ clReads[2].got = JNull
  /\ clSent = {}

(***************************************************************************)
(* Specifications: one per subsystem, the others at rest.                  *)
(***************************************************************************)
(***************************************************************************)
(* The generic adapter (0chat.js): POST /v1/responses forwards the request *)
(* to the LLM and maps its reply, a text, to SSE events.                   *)
(***************************************************************************)
\* {"a":1}
LlmPlain ==
  <<"{", "\"", "a", "\"", ":", "1", "}">>

\* {}
LlmEmptyObject ==
  <<"{", "}">>

\* [1]
LlmList ==
  <<"[", "1", "]">>

\* {"x":"```json[1]```"}
LlmNested ==
  <<"{", "\"", "x", "\"", ":", "\"", "BACKTICK", "BACKTICK", "BACKTICK", "j", "s", "o", "n", "[", "1", "]", "BACKTICK",
    "BACKTICK", "BACKTICK", "\"", "}">>

\* {"content":[{"type":"text","text":"hi"}]}
LlmContent ==
  <<"{", "\"", "c", "o", "n", "t", "e", "n", "t", "\"", ":", "[", "{", "\"", "t", "y", "p",
    "e", "\"", ":", "\"", "t", "e", "x", "t", "\"", ",", "\"", "t", "e", "x", "t", "\"",
    ":", "\"", "h", "i", "\"", "}", "]", "}">>

\* {"reasoning":{"summary":" plan "},"tool_calls":[{"type":"function","name":"shell","arguments":{"command":["ls","-la"]}},{"type":"function","name":"update_plan"},{"name":"lookup"}],"content":[{"type":"text","text":"hi"},{"type":"image"}]}
LlmTools ==
  <<"{", "\"", "r", "e", "a", "s", "o", "n", "i", "n", "g", "\"", ":", "{", "\"", "s", "u",
    "m", "m", "a", "r", "y", "\"", ":", "\"", " ", "p", "l", "a", "n", " ", "\"", "}", ",",
    "\"", "t", "o", "o", "l", "_", "c", "a", "l", "l", "s", "\"", ":", "[", "{", "\"", "t",
    "y", "p", "e", "\"", ":", "\"", "f", "u", "n", "c", "t", "i", "o", "n", "\"", ",",
    "\"", "n", "a", "m", "e", "\"", ":", "\"", "s", "h", "e", "l", "l", "\"", ",", "\"",
    "a", "r", "g", "u", "m", "e", "n", "t", "s", "\"", ":", "{", "\"", "c", "o", "m", "m",
    "a", "n", "d", "\"", ":", "[", "\"", "l", "s", "\"", ",", "\"", "-", "l", "a", "\"",
    "]", "}", "}", ",", "{", "\"", "t", "y", "p", "e", "\"", ":", "\"", "f", "u", "n", "c",
    "t", "i", "o", "n", "\"", ",", "\"", "n", "a", "m", "e", "\"", ":", "\"", "u", "p",
    "d", "a", "t", "e", "_", "p", "l", "a", "n", "\"", "}", ",", "{", "\"", "n", "a", "m",
    "e", "\"", ":", "\"", "l", "o", "o", "k", "u", "p", "\"", "}", "]", ",", "\"", "c",
    "o", "n", "t", "e", "n", "t", "\"", ":", "[", "{", "\"", "t", "y", "p", "e", "\"", ":",
    "\"", "t", "e", "x", "t", "\"", ",", "\"", "t", "e", "x", "t", "\"", ":", "\"", "h",
    "i", "\"", "}", ",", "{", "\"", "t", "y", "p", "e", "\"", ":", "\"", "i", "m", "a",
    "g", "e", "\"", "}", "]", "}">>

\* null
LlmNull ==
  <<"n", "u", "l", "l">>

LlmHello ==
  <<"h", "e", "l", "l", "o">>

Prose ==
  <<"o", "k", " ">>

FenceOpen ==
  <<"BACKTICK", "BACKTICK", "BACKTICK", "j", "s", "o", "n", "\n">>

FenceOpenUpper ==
  <<"BACKTICK", "BACKTICK", "BACKTICK", " ", "J", "S", "O", "N", " ">>

BraceOpen ==
  <<"{">>

FenceClose ==
  <<"BACKTICK", "BACKTICK", "BACKTICK">>

ProseAfter ==
  <<" ", "b">>

BraceClose ==
  <<"}">>

\* the texts askLlm can return: a reply body, alone or inside prose, a fence
\* or braces
LlmBodies ==
  {<<>>, LlmHello, LlmNull, LlmPlain, LlmList, LlmNested, LlmContent, LlmTools}
LlmReplies ==
  {pre \o body \o post :
     pre \in {<<>>, Prose, FenceOpen, FenceOpenUpper, BraceOpen},
     body \in LlmBodies,
     post \in {<<>>, FenceClose, ProseAfter, BraceClose}}

\* a parsed reply object: the properties mapJsonToSse reads, and a label for
\* the others
ReplyObject(summary, tools, content, other) ==
  [k |-> "reply", reasoning_summary |-> summary, tool_calls |-> tools,
   content |-> content, other |-> other]

ShellCall ==
  [NoCall EXCEPT !.type = JStr("function"), !.name = JStr("shell"),
     !.arguments = [NoFields EXCEPT !.command = LsLa]]
PlanCall == [NoCall EXCEPT !.type = JStr("function"), !.name = JStr("update_plan")]
LookupCall == [NoCall EXCEPT !.name = JStr("lookup")]

Throws == [k |-> "throws"]

Whitespace == {" ", "\n"}

\* the text without its leading and trailing whitespace
TrimWs(text) ==
  LET solid == {i \in 1..Len(text) : text[i] \notin Whitespace}
  IN IF solid = {} THEN <<>>
     ELSE SubSeq(text, Min(solid), CHOOSE m \in solid : \A n \in solid : n <= m)

\* JSON.parse over the documents used here (whitespace around the value is
\* allowed); Throws for every other text
JSONparse(text) ==
  LET t == TrimWs(text)
  IN CASE t = LlmPlain -> ReplyObject(JAbsent, JAbsent, JAbsent, "a")
       [] t = LlmEmptyObject -> ReplyObject(JAbsent, JAbsent, JAbsent, "")
       [] t = LlmList -> JArr(<<JNum(1)>>)
       [] t = LlmNested -> ReplyObject(JAbsent, JAbsent, JAbsent, "x")
       [] t = LlmContent -> ReplyObject(JAbsent, JAbsent, JArr(<<TextEl("hi")>>), "")
       [] t = LlmTools ->
            ReplyObject(JChars(<<" ", "p", "l", "a", "n", " ">>),
                        JArr(<<ShellCall, PlanCall, LookupCall>>),
                        JArr(<<TextEl("hi"), ImageEl>>), "")
       [] t = LlmNull -> JNull
       [] OTHER -> Throws

\* "BACKTICK" is the character U+0060, which a TLA+ string cannot hold
Backticks == <<"BACKTICK", "BACKTICK", "BACKTICK">>
JsonWord == <<"j", "s", "o", "n">>

\* the /i flag, over the letters of "json"
Lower(c) ==
  CASE c = "J" -> "j" [] c = "S" -> "s" [] c = "O" -> "o" [] c = "N" -> "n"
    [] OTHER -> c

\* the first position at or after i that holds no whitespace
SkipWs(text, i) ==
  LET solid == {j \in i..Len(text) : text[j] \notin Whitespace}
  IN IF solid = {} THEN Len(text) + 1 ELSE Min(solid)

WordAt(text, i) ==
  /\ i + Len(JsonWord) - 1 <= Len(text)
  /\ \A n \in 1..Len(JsonWord) : Lower(text[i + n - 1]) = JsonWord[n]

\* /```\s*json\s*([\s\S]*?)```/i matches with the opening backticks at i
FenceAt(text, i) ==
  /\ i + 2 <= Len(text)
  /\ SubSeq(text, i, i + 2) = Backticks
  /\ WordAt(text, SkipWs(text, i + 3))
  /\ IndexOf(text, Backticks, SkipWs(text, SkipWs(text, i + 3) + Len(JsonWord))) # 0

\* the regular expression's exec: [matched, fence[1]]
FenceGroup(text) ==
  LET starts == {i \in 1..Len(text) : FenceAt(text, i)}
      from == SkipWs(text, SkipWs(text, Min(starts) + 3) + Len(JsonWord))
  IN IF starts = {} THEN [matched |-> FALSE, group |-> <<>>]
     ELSE [matched |-> TRUE,
           group |-> SubSeq(text, from, IndexOf(text, Backticks, from) - 1)]

\* textOrObj.slice(a, b + 1) for the first "{" and the last "}"
BraceSlice(text) ==
  LET a == IndexOf(text, <<"{">>, 1)
      b == LastIndexOf(text, <<"}">>)
  IN IF a # 0 /\ b # 0 /\ b > a
     THEN [found |-> TRUE, slice |-> SubSeq(text, a, b)]
     ELSE [found |-> FALSE, slice |-> <<>>]

\* the brace slice tried before the fenced block
chatTryParseJson_SliceFirst(textOrObj) ==
  IF textOrObj.k \in {"reply", "arr"} THEN textOrObj
  ELSE IF textOrObj.k # "chars" THEN JNull
  ELSE IF JSONparse(textOrObj.v) # Throws THEN JSONparse(textOrObj.v)
  ELSE IF BraceSlice(textOrObj.v).found
          /\ JSONparse(BraceSlice(textOrObj.v).slice) # Throws
    THEN JSONparse(BraceSlice(textOrObj.v).slice)
  ELSE IF FenceGroup(textOrObj.v).matched /\ FenceGroup(textOrObj.v).group # <<>>
          /\ JSONparse(FenceGroup(textOrObj.v).group) # Throws
    THEN JSONparse(FenceGroup(textOrObj.v).group)
  ELSE JNull

\* tryParseJson of 0chat.js
chatTryParseJson(textOrObj) ==
  IF textOrObj.k \in {"reply", "arr"} THEN textOrObj
  ELSE IF textOrObj.k # "chars" THEN JNull
  ELSE IF JSONparse(textOrObj.v) # Throws THEN JSONparse(textOrObj.v)
  ELSE IF FenceGroup(textOrObj.v).matched /\ FenceGroup(textOrObj.v).group # <<>>
          /\ JSONparse(FenceGroup(textOrObj.v).group) # Throws
    THEN JSONparse(FenceGroup(textOrObj.v).group)
  ELSE IF BraceSlice(textOrObj.v).found
          /\ JSONparse(BraceSlice(textOrObj.v).slice) # Throws
    THEN JSONparse(BraceSlice(textOrObj.v).slice)
  ELSE JNull

MessageItem(text) ==
  [type |-> "response.output_item.done",
   item |-> [type |-> "message", role |-> "assistant", text |-> text]]

\* obj?.f
ReplyField(obj, f) == IF obj.k = "reply" THEN obj[f] ELSE JAbsent

chatSummaryEvents(obj) ==
  LET summary == ReplyField(obj, "reasoning_summary")
  IN IF summary.k = "chars" /\ TrimWs(summary.v) # <<>>
     THEN <<[type |-> "response.reasoning_summary_text.delta",
             delta |-> JChars(TrimWs(summary.v))]>>
     ELSE <<>>

chatToolItem(tc) ==
  IF tc.type = JStr("function") /\ tc.name = JStr("shell") /\ IsArr(Command(tc.arguments))
    THEN [type |-> "response.output_item.done",
          item |-> [type |-> "local_shell_call", call_id |-> "call_shell",
                    status |-> "in_progress",
                    action |-> [type |-> "exec", command |-> tc.arguments.command,
                                timeout_ms |-> 120000]]]
  ELSE IF tc.type = JStr("function") /\ tc.name = JStr("update_plan")
    THEN [type |-> "response.output_item.done",
          item |-> [type |-> "function_call", name |-> "update_plan",
                    arguments |-> JsonText(Coalesce(tc.arguments, NoFields)),
                    call_id |-> "call_update_plan"]]
  ELSE MessageItem(JsonText(tc))

RECURSIVE chatContentLoop(_)
chatContentLoop(arr) ==
  IF arr = <<>> THEN <<>>
  ELSE (IF Head(arr).type = JStr("text") /\ IsStr(Head(arr).text)
        THEN <<MessageItem(Head(arr).text)>> ELSE <<>>)
       \o chatContentLoop(Tail(arr))

mapJsonToSse(obj) ==
  LET tools == IF IsArr(ReplyField(obj, "tool_calls")) THEN obj.tool_calls.v ELSE <<>>
      contents == IF IsArr(ReplyField(obj, "content")) THEN obj.content.v ELSE <<>>
  IN chatSummaryEvents(obj)
       \o [i \in 1..Len(tools) |-> chatToolItem(tools[i])]
       \o chatContentLoop(contents)

InitAdapter ==
  /\ gaPc = "idle"
  /\ gaRid = "none"
  /\ gaReply = <<>>
  /\ gaObj = JAbsent
  /\ gaOut = <<>>
  /\ gaEnded = FALSE

\* the adapter at rest, while another subsystem is explored
ParkedAdapter == InitAdapter

\* the request arrives: setupSSE, response.created, then await askLlm(...)
GaRequest ==
  /\ gaPc = "idle"
  /\ \E rid \in RespIds :
       /\ gaRid' = rid
       /\ gaOut' = <<CreatedEvent(rid)>>
  /\ gaPc' = "awaiting"
  /\ UNCHANGED <<gaReply, gaObj, gaEnded>>
  /\ UNCHANGED adapterFrame

\* askLlm resolves (it never rejects): parse, map or fall back, complete, end
GaReplyArrives ==
  /\ gaPc = "awaiting"
  /\ \E llmReply \in LlmReplies :
       LET obj == chatTryParseJson(JChars(llmReply))
       IN /\ gaReply' = llmReply
          /\ gaObj' = obj
          /\ gaOut' = gaOut
                        \o (IF Truthy(obj) THEN mapJsonToSse(obj)
                            ELSE <<MessageItem(JChars(llmReply))>>)
                        \o <<CompletedEvent(gaRid)>>
  /\ gaEnded' = TRUE
  /\ gaPc' = "done"
  /\ UNCHANGED gaRid
  /\ UNCHANGED adapterFrame

\* the texts the strategies hand to JSON.parse, in the stated order: the whole
\* text, the fenced json block, the span from the first { to the last }
Candidates(text) ==
  <<text>>
    \o (IF FenceGroup(text).matched /\ FenceGroup(text).group # <<>>
        THEN <<FenceGroup(text).group>> ELSE <<>>)
    \o (IF BraceSlice(text).found THEN <<BraceSlice(text).slice>> ELSE <<>>)

Parses(text) == JSONparse(text) # Throws

\* C30: tryParseJson of the generic adapter returns what the first of its
\* strategies that parses gives (whole text, fenced json block, first { to last
\* }), and when none parses the handler writes exactly response.created, one
\* assistant message holding the raw reply, response.completed.
C30_StrategiesInOrder ==
  gaPc = "done" =>
    LET parsed == SelectSeq(Candidates(gaReply), Parses)
    IN /\ gaObj = IF parsed = <<>> THEN JNull ELSE JSONparse(Head(parsed))
       /\ gaReply = Prose \o LlmNested => gaObj = JArr(<<JNum(1)>>)
       /\ gaReply = LlmNested => gaObj = ReplyObject(JAbsent, JAbsent, JAbsent, "x")
       /\ gaReply = Prose \o LlmPlain \o ProseAfter
            => gaObj = ReplyObject(JAbsent, JAbsent, JAbsent, "a")
       /\ parsed = <<>> =>
            /\ gaOut = <<CreatedEvent(gaRid), MessageItem(JChars(gaReply)),
                         CompletedEvent(gaRid)>>
            /\ gaEnded

\* prose, then an object whose string holds a fenced [1]: the whole text does
\* not parse, the fenced block does and wins over the brace span
C30_Witness ==
  /\ gaPc = "done"
  /\ gaReply = Prose \o LlmNested
  /\ Len(SelectSeq(Candidates(gaReply), Parses)) = 2
  /\ gaObj = JArr(<<JNum(1)>>)
  /\ Len(gaOut) = 2

(***************************************************************************)
(* streamQwenMessage (src/unnamed/part_001): the handlers it attaches to   *)
(* the upstream response stream.  A chunk is what one 'data' event carries: *)
(* the events the parser dispatches while fed with it, and whether feed    *)
(* throws on it.                                                           *)
(***************************************************************************)
MaxChunks == 3

\* event.data as onEv sees it: missing, text that is not JSON, or a JSON
\* document with its choices[0].delta.content
NoData == [k |-> "nodata", content |-> JAbsent]
Heartbeat == [k |-> "text", content |-> JAbsent]
DeltaData(content) == [k |-> "json", content |-> content]
EventDatas ==
  {NoData, Heartbeat, DeltaData(JStr("a")), DeltaData(JStr("b")), DeltaData(JStr("")),
   DeltaData(JNum(1)), DeltaData(JAbsent)}

StreamChunks ==
  [throws : {FALSE}, events : {<<d>> : d \in EventDatas}]
    \cup {[throws |-> FALSE, events |-> <<DeltaData(JStr("a")), DeltaData(JStr("b"))>>],
          [throws |-> TRUE, events |-> <<>>]}

\* the state the handlers share
Stream == [deltas |-> smDeltas, log |-> smLog]

\* onEv: the deltas one parsed event hands to onDelta
onEv(event) ==
  IF event.k = "nodata" THEN <<>>
  ELSE IF event.k = "text" THEN <<>>
  ELSE IF event.content.k = "str" /\ Len(event.content.v) > 0 THEN <<event.content.v>>
  ELSE <<>>

RECURSIVE feed(_)
\* parser.feed on a chunk it accepts: onEv for each event, in order
feed(events) == IF events = <<>> THEN <<>> ELSE onEv(Head(events)) \o feed(Tail(events))

\* the data handler giving up for good after the first feed error
onData_StopAfterError(st, chunk) ==
  IF st.log # <<>> THEN st
  ELSE IF chunk.throws THEN [st EXCEPT !.log = Append(@, "parser_feed_error")]
  ELSE [st EXCEPT !.deltas = @ \o feed(chunk.events)]

\* res.data.on("data"): feed inside try, the catch logs
onData(st, chunk) ==
  IF chunk.throws THEN [st EXCEPT !.log = Append(@, "parser_feed_error")]
  ELSE [st EXCEPT !.deltas = @ \o feed(chunk.events)]

InitStream ==
  /\ smFed = <<>>
  /\ smDeltas = <<>>
  /\ smLog = <<>>
  /\ smOnEnd = <<>>

ParkedStream == InitStream

\* the upstream stream emits 'data'
SmData ==
  /\ smOnEnd = <<>>
  /\ Len(smFed) < MaxChunks
  /\ \E chunk \in StreamChunks :
       /\ smFed' = Append(smFed, chunk)
       /\ LET st == onData(Stream, chunk)
          IN smDeltas' = st.deltas /\ smLog' = st.log
  /\ UNCHANGED smOnEnd
  /\ UNCHANGED streamFrame

\* the upstream stream emits 'end': onEnd()
SmEnd ==
  /\ smOnEnd = <<>>
  /\ smOnEnd' = Append(smOnEnd, "undefined")
  /\ UNCHANGED <<smFed, smDeltas, smLog>>
  /\ UNCHANGED streamFrame

\* the upstream stream emits 'error': onEnd(err)
SmError ==
  /\ smOnEnd = <<>>
  /\ smOnEnd' = Append(smOnEnd, "err")
  /\ UNCHANGED <<smFed, smDeltas, smLog>>
  /\ UNCHANGED streamFrame

\* an event whose data is JSON with a non-empty string delta
CarriesDelta(e) == e.k = "json" /\ e.content.k = "str" /\ e.content.v # ""
ThrowsOn(c) == c.throws

RECURSIVE DeltasCarried(_)
\* the deltas carried by the chunks feed did not throw on
DeltasCarried(chunks) ==
  IF chunks = <<>> THEN <<>>
  ELSE LET c == Head(chunks)
           sel == IF c.throws THEN <<>> ELSE SelectSeq(c.events, CarriesDelta)
       IN [i \in 1..Len(sel) |-> sel[i].content.v] \o DeltasCarried(Tail(chunks))

\* C31: a chunk on which parser.feed throws is logged and skipped: the chunks
\* after it are still fed and their deltas still reach onDelta, and when the
\* stream ends onEnd is called once, with no error.
C31_FeedErrorSkipped ==
  /\ [](/\ smDeltas = DeltasCarried(smFed)
        /\ Len(smLog) = Len(SelectSeq(smFed, ThrowsOn))
        /\ \A i \in 1..Len(smLog) : smLog[i] = "parser_feed_error"
        /\ Len(smOnEnd) <= 1)
  /\ [][smFed' # smFed => smOnEnd' = smOnEnd]_vars

\* a delta, a chunk feed threw on, another delta, then the end of the stream
C31_Witness ==
  /\ Len(smFed) = 3
  /\ ~smFed[1].throws /\ smFed[2].throws /\ ~smFed[3].throws
  /\ smDeltas = <<"a", "b">>
  /\ smLog = <<"parser_feed_error">>
  /\ smOnEnd = <<"undefined">>

(***************************************************************************)
(* startLoginServerAndAuth (src/test_gpt.js): what one login session sends *)
(* in the authorize URL and in the code-for-token exchange.                *)
(***************************************************************************)
MaxCallbacks == 3

Undefined == [k |-> "undefined"]
\* crypto.randomBytes as drawn for the verifier and for the state
Verifiers == {"verifier_1", "verifier_2"}
StateNonces == {"state_1", "state_2"}
DefaultPort == 1455
EphemeralPort == 49152
\* base64url(sha256(v)): a one-way digest, distinct on distinct inputs here
S256(v) == IF v = "verifier_1" THEN "digest_1"
           ELSE IF v = "verifier_2" THEN "digest_2"
           ELSE "digest_of_other"

\* the challenge sent as the verifier itself
genPkce_Plain(random) == [verifier |-> random, challenge |-> random]

genPkce(random) == [verifier |-> random, challenge |-> S256(random)]

\* `http://localhost:${port}/auth/callback`
RedirectUriFor(port) == [host |-> "localhost", port |-> port, path |-> "/auth/callback"]

\* the URLSearchParams of the authorize URL that bind the session
authorizeParams(redirectUri, pkce, state) ==
  [redirect_uri |-> redirectUri, code_challenge |-> pkce.challenge,
   code_challenge_method |-> "S256", state |-> state]

\* the form exchangeCodeForTokens posts
exchangeForm(code, redirectUri, pkce) ==
  [grant_type |-> "authorization_code", code |-> code, redirect_uri |-> redirectUri,
   code_verifier |-> pkce.verifier]

\* genPkce(), genState(), createServer and listen have run; the port is awaited
InitBinding ==
  /\ bdPc = "binding"
  /\ bdPkce \in {genPkce(v) : v \in Verifiers}
  /\ bdState \in StateNonces
  /\ bdRedirect = Undefined
  /\ bdAuthUrl = Undefined
  /\ bdExchanges = <<>>
  /\ bdAccepted = <<>>

ParkedBinding ==
  InitBinding /\ bdPkce = genPkce("verifier_1") /\ bdState = "state_1"

\* the port is known: redirectUri is set and the browser is sent to the
\* authorize URL
BdListening ==
  /\ bdPc = "binding"
  /\ bdPc' = "open"
  /\ \E port \in {DefaultPort, EphemeralPort} :
       /\ bdRedirect' = RedirectUriFor(port)
       /\ bdAuthUrl' = authorizeParams(RedirectUriFor(port), bdPkce, bdState)
  /\ UNCHANGED <<bdPkce, bdState, bdExchanges, bdAccepted>>
  /\ UNCHANGED bindFrame

\* GET /auth/callback?code&state: past the guard the exchange is posted
BdCallback ==
  /\ bdPc = "open"
  /\ Len(bdExchanges) < MaxCallbacks
  /\ \E code \in CallbackCodes, gotState \in {JAbsent} \cup {JStr(n) : n \in StateNonces} :
       /\ ~callbackRejected(code, gotState, bdState)
       /\ bdExchanges' = Append(bdExchanges, exchangeForm(code, bdRedirect, bdPkce))
       /\ bdAccepted' = Append(bdAccepted, gotState)
  /\ UNCHANGED <<bdPc, bdPkce, bdState, bdRedirect, bdAuthUrl>>
  /\ UNCHANGED bindFrame

\* a callback the guard answers with 400
BdCallbackRejected ==
  /\ bdPc = "open"
  /\ \E code \in CallbackCodes, gotState \in {JAbsent} \cup {JStr(n) : n \in StateNonces} :
       callbackRejected(code, gotState, bdState)
  /\ UNCHANGED bindVars
  /\ UNCHANGED bindFrame

\* C32: in one login session every code-for-token exchange sends the verifier
\* whose S256 digest is the code_challenge of the authorize URL and the
\* redirect_uri of that URL, every callback that was accepted carried exactly
\* the state placed in that URL, and pkce, state, redirectUri and the URL's
\* parameters never change once set.
C32_SessionBinding ==
  /\ [](/\ \A i \in 1..Len(bdExchanges) :
             /\ bdAuthUrl # Undefined
             /\ bdAuthUrl.code_challenge_method = "S256"
             /\ S256(bdExchanges[i].code_verifier) = bdAuthUrl.code_challenge
             /\ bdExchanges[i].redirect_uri = bdAuthUrl.redirect_uri
        /\ \A i \in 1..Len(bdAccepted) :
             bdAuthUrl # Undefined /\ bdAccepted[i] = JStr(bdAuthUrl.state))
  /\ [][/\ bdPkce' = bdPkce /\ bdState' = bdState
        /\ bdRedirect # Undefined => bdRedirect' = bdRedirect
        /\ bdAuthUrl # Undefined => bdAuthUrl' = bdAuthUrl
        /\ \A i \in 1..Len(bdExchanges) : bdExchanges'[i] = bdExchanges[i]]_vars

\* two callbacks passed the guard and two exchanges were posted, on the
\* ephemeral port
C32_Witness ==
  /\ Len(bdExchanges) = 2 /\ Len(bdAccepted) = 2
  /\ bdPkce.verifier = "verifier_2" /\ bdState = "state_2"
  /\ bdRedirect = RedirectUriFor(EphemeralPort)
  /\ bdExchanges[2].code_verifier = "verifier_2"

(***************************************************************************)
(* askQuestion (src/test_gpt.js): the credential mode, the requests it     *)
(* posts and the model fallback loop.                                      *)
(***************************************************************************)
PlatformBase == "https://api.openai.com/v1"
ChatgptBase == "https://chatgpt.com/backend-api/codex"
PLATFORM_DEFAULT_MODEL == "gpt-5"
CHATGPT_DEFAULT_MODEL == "o4-mini"
CHATGPT_FALLBACK_MODELS == <<"o4", "gpt-4o", "gpt-4o-mini">>

\* parseModelArg(): null, or the model named by --model or MODEL
NoModel == "null"
RequestedModels == {NoModel, "gpt-4o", "gpt-5", "o4-mini"}
\* /^gpt-5/i on the model names above
IsGpt5(m) == m \in {"gpt-5"}

\* creds: null, or a record whose fields may be missing
Sessions ==
  {JNull} \cup [apiKey : {JAbsent, JStr("sk-key")}, token : {JAbsent, JStr("access")},
                accountId : {JAbsent, JStr("acct")}]

NoErr == "null"
\* how a POST to /responses and to /chat/completions may settle
ResponsesOutcomes == {"ok", "unsupported model", "error"}
ChatOutcomes == {"ok", "error"}

noCredentials(session) ==
  session = JNull \/ (~Truthy(session.apiKey) /\ ~Truthy(session.token))

usePlatform(session) == Truthy(session.apiKey)

Bearer(secret) == <<"Bearer", secret>>

\* the platform branch leaving chatgpt-account-id in place
askHeaders_KeepAccount(session) ==
  [Authorization |-> IF usePlatform(session) THEN Bearer(session.apiKey)
                     ELSE Bearer(session.token),
   account |-> IF Truthy(session.accountId) THEN session.accountId ELSE JAbsent]

\* headers: Authorization and chatgpt-account-id as askQuestion leaves them
askHeaders(session) ==
  [Authorization |-> IF usePlatform(session) THEN Bearer(session.apiKey)
                     ELSE Bearer(session.token),
   account |-> IF ~usePlatform(session) /\ Truthy(session.accountId)
               THEN session.accountId ELSE JAbsent]

chosenModel(session, requested) ==
  IF requested # NoModel THEN requested
  ELSE IF usePlatform(session) THEN PLATFORM_DEFAULT_MODEL ELSE CHATGPT_DEFAULT_MODEL

\* the alternates appended whatever the mode and the request
tryModels_AlwaysAlternates(session, requested) ==
  LET model == chosenModel(session, requested)
      other(m) == m # model
  IN <<model>> \o SelectSeq(CHATGPT_FALLBACK_MODELS, other)

tryModels(session, requested) ==
  LET model == chosenModel(session, requested)
      other(m) == m # model
  IN <<model>> \o (IF ~usePlatform(session) /\ requested = NoModel
                   THEN SelectSeq(CHATGPT_FALLBACK_MODELS, other) ELSE <<>>)

\* httpsPostSSE(url, headers, payload) of the loop
ResponsesRequest(session, m) ==
  [base |-> IF usePlatform(session) THEN PlatformBase ELSE ChatgptBase,
   path |-> "/responses", headers |-> askHeaders(session), model |-> m]

\* streamChatCompletions('https://chatgpt.com/backend-api/codex', headers, m, question)
ChatRequest(session, m) ==
  [base |-> ChatgptBase, path |-> "/chat/completions", headers |-> askHeaders(session),
   model |-> m]

InitAsk ==
  /\ aqPc = "idle"
  /\ aqSession = JNull
  /\ aqRequested = NoModel
  /\ aqIdx = 0
  /\ aqReqs = <<>>
  /\ aqOutcomes = <<>>
  /\ aqLastErr = NoErr

ParkedAsk == InitAsk

\* askQuestion up to its first await: the guards, then the first model's POST
AqCall ==
  /\ aqPc = "idle"
  /\ \E session \in Sessions, requested \in RequestedModels :
       /\ aqSession' = session
       /\ aqRequested' = requested
       /\ IF noCredentials(session)
          THEN aqPc' = "thrown" /\ UNCHANGED <<aqIdx, aqReqs>>
          ELSE IF ~usePlatform(session) /\ IsGpt5(chosenModel(session, requested))
          THEN aqPc' = "thrown" /\ UNCHANGED <<aqIdx, aqReqs>>
          ELSE /\ aqPc' = "responses"
               /\ aqIdx' = 1
               /\ aqReqs' = <<ResponsesRequest(session, tryModels(session, requested)[1])>>
  /\ UNCHANGED <<aqOutcomes, aqLastErr>>
  /\ UNCHANGED askFrame

\* the loop moves on: the next model's POST, or past the loop `throw lastErr`
AqNextModel ==
  LET models == tryModels(aqSession, aqRequested)
  IN IF aqIdx < Len(models)
     THEN /\ aqIdx' = aqIdx + 1
          /\ aqReqs' = Append(aqReqs, ResponsesRequest(aqSession, models[aqIdx + 1]))
          /\ aqPc' = "responses"
     ELSE aqPc' = "thrown" /\ UNCHANGED <<aqIdx, aqReqs>>

\* the POST to /responses settles
AqResponsesSettles ==
  /\ aqPc = "responses"
  /\ \E outcome \in ResponsesOutcomes :
       /\ aqOutcomes' = Append(aqOutcomes, outcome)
       /\ IF outcome = "ok"
          THEN aqLastErr' = NoErr /\ aqPc' = "returned" /\ UNCHANGED <<aqIdx, aqReqs>>
          ELSE /\ aqLastErr' = outcome
               /\ IF outcome # "unsupported model"
                  THEN aqPc' = "thrown" /\ UNCHANGED <<aqIdx, aqReqs>>
                  ELSE IF ~usePlatform(aqSession)
                  THEN /\ aqPc' = "chat"
                       /\ aqReqs' = Append(aqReqs,
                            ChatRequest(aqSession, tryModels(aqSession, aqRequested)[aqIdx]))
                       /\ UNCHANGED aqIdx
                  ELSE AqNextModel
  /\ UNCHANGED <<aqSession, aqRequested>>
  /\ UNCHANGED askFrame

\* the chat-completions fallback settles
AqChatSettles ==
  /\ aqPc = "chat"
  /\ \E outcome \in ChatOutcomes :
       /\ aqOutcomes' = Append(aqOutcomes, outcome)
       /\ IF outcome = "ok"
          THEN aqLastErr' = NoErr /\ aqPc' = "returned" /\ UNCHANGED <<aqIdx, aqReqs>>
          ELSE AqNextModel /\ UNCHANGED aqLastErr
  /\ UNCHANGED <<aqSession, aqRequested>>
  /\ UNCHANGED askFrame

\* C34: with an API key the request goes to the platform endpoint with the
\* key as bearer and no chatgpt-account-id; otherwise to the ChatGPT backend
\* with the access token as bearer and chatgpt-account-id set when an account
\* id is known; the access token never goes to the platform endpoint nor the
\* API key to the ChatGPT backend.
C34_CredentialMode ==
  \A i \in 1..Len(aqReqs) :
    LET r == aqReqs[i]
    IN /\ IF Truthy(aqSession.apiKey)
          THEN /\ r.base = PlatformBase
               /\ r.headers.Authorization = Bearer(aqSession.apiKey)
               /\ r.headers.account = JAbsent
          ELSE /\ r.base = ChatgptBase
               /\ r.headers.Authorization = Bearer(aqSession.token)
               /\ r.headers.account =
                    (IF Truthy(aqSession.accountId) THEN aqSession.accountId ELSE JAbsent)
       /\ r.base = PlatformBase => r.headers.Authorization # Bearer(aqSession.token)
       /\ r.base = ChatgptBase => r.headers.Authorization # Bearer(aqSession.apiKey)

\* creds with an API key, an access token and an account id: the request went
\* to the platform with the key and without the account header
C34_Witness ==
  /\ aqPc = "returned"
  /\ aqSession = [apiKey |-> JStr("sk-key"), token |-> JStr("access"),
                  accountId |-> JStr("acct")]
  /\ Len(aqReqs) = 1
  /\ aqReqs[1].base = PlatformBase
  /\ aqReqs[1].headers = [Authorization |-> Bearer(JStr("sk-key")), account |-> JAbsent]

\* the models of the /responses requests posted, in order
ModelsTried ==
  LET isResponses(r) == r.path = "/responses"
      posted == SelectSeq(aqReqs, isResponses)
  IN [i \in 1..Len(posted) |-> posted[i].model]
AttemptedModels == {aqReqs[i].model : i \in 1..Len(aqReqs)}
\* the i-th request has settled, and not with a reply
FailedAt(i) == i <= Len(aqOutcomes) /\ aqOutcomes[i] # "ok"
\* model m failed on /responses and on a chat-completions fallback
FailedOnBoth(m) ==
  /\ \E i \in 1..Len(aqReqs) :
       aqReqs[i].model = m /\ aqReqs[i].path = "/responses" /\ FailedAt(i)
  /\ \E i \in 1..Len(aqReqs) :
       aqReqs[i].model = m /\ aqReqs[i].path = "/chat/completions" /\ FailedAt(i)
\* model m failed on /responses, and on the chat-completions fallback if one
\* was made for it
FailedWhereTried(m) ==
  /\ \E i \in 1..Len(aqReqs) :
       aqReqs[i].model = m /\ aqReqs[i].path = "/responses" /\ FailedAt(i)
  /\ \A i \in 1..Len(aqReqs) :
       (aqReqs[i].model = m /\ aqReqs[i].path = "/chat/completions") => FailedAt(i)
\* the order of the list: the chosen model, then the alternates in their order
InListOrder ==
  LET first == chosenModel(aqSession, aqRequested)
      other(m) == m # first
  IN IsPrefix(ModelsTried, <<first>> \o SelectSeq(CHATGPT_FALLBACK_MODELS, other))
\* list order, stop at the first success, rethrow of other errors at once,
\* alternates only in ChatGPT mode with no model requested
FallbackLoop ==
  /\ aqReqs # <<>> => InListOrder
  /\ \A i \in 1..Len(aqOutcomes) :
       aqOutcomes[i] = "ok" => (i = Len(aqReqs) /\ aqPc = "returned")
  /\ \A i \in 1..Len(aqOutcomes) :
       (aqReqs[i].path = "/responses" /\ aqOutcomes[i] = "error")
          => (i = Len(aqReqs) /\ aqPc = "thrown")
  /\ (\E i \in 1..Len(aqReqs) : aqReqs[i].model # aqReqs[1].model)
       => (~Truthy(aqSession.apiKey) /\ aqRequested = NoModel)
  /\ (aqPc = "chat" \/ \E i \in 1..Len(aqReqs) : aqReqs[i].path = "/chat/completions")
       => ~Truthy(aqSession.apiKey)

\* C39 as stated: models are tried in list order and the loop stops at the
\* first success; an error other than unsupported-model is rethrown at once;
\* alternates are tried only in ChatGPT mode with no model requested; and the
\* call fails iff every attempted model failed on both /responses and the
\* chat-completions fallback.
C39_ModelFallbackAsStated ==
  /\ FallbackLoop
  /\ aqPc \in {"returned", "thrown"} =>
       (aqPc = "thrown" <=> \A m \in AttemptedModels : FailedOnBoth(m))

\* C39: models are tried in list order and the loop stops at the first
\* success; an error other than unsupported-model is rethrown at once;
\* alternates are tried only in ChatGPT mode with no model requested; the
\* chat-completions fallback is made only in ChatGPT mode after an
\* unsupported-model error; and the call fails iff every attempted model
\* failed on /responses and on the chat-completions fallback where one was made.
C39_ModelFallback ==
  /\ FallbackLoop
  /\ \A i \in 1..Len(aqReqs) :
       aqReqs[i].path = "/chat/completions" =>
         /\ i > 1 /\ aqReqs[i - 1].path = "/responses"
         /\ aqReqs[i - 1].model = aqReqs[i].model
         /\ aqOutcomes[i - 1] = "unsupported model"
  /\ aqPc \in {"returned", "thrown"} =>
       (aqPc = "thrown" <=> \A m \in AttemptedModels : FailedWhereTried(m))

\* ChatGPT mode, no model requested: o4-mini and o4 failed as unsupported on
\* both endpoints, then gpt-4o answered on /responses
C39_Witness ==
  /\ aqPc = "returned" /\ aqRequested = NoModel /\ ~Truthy(aqSession.apiKey)
  /\ ModelsTried = <<"o4-mini", "o4", "gpt-4o">>
  /\ aqOutcomes = <<"unsupported model", "error", "unsupported model", "error", "ok">>

(***************************************************************************)
(* httpsPostSSE (src/test_gpt.js): the response's data handler and flush.  *)
(* The upstream byte stream is a sequence of pieces of text; a network     *)
(* chunk is a run of consecutive pieces, so a chunk may end inside a line. *)
(***************************************************************************)
Newline == "\n"
EventField == "event:"
DataField == "data:"
DeltaName == "response.output_text.delta"
CompletedName == "response.completed"
\* the two halves of each JSON document sent on a data line
DeltaHead == "{\"type\":\"response.output_text.delta\","
DeltaHiTail == "\"delta\":\"Hi\"}"
DeltaBangTail == "\"delta\":\"!\"}"
CompletedHead == "{\"type\":"
CompletedTail == "\"response.completed\"}"

\* currentEvent = null, kept apart from every text after event:
NoEvent == <<"(null)">>
DeltaDoc(text) == [k |-> "obj", type |-> DeltaName, delta |-> text]
CompletedDoc == [k |-> "obj", type |-> CompletedName, delta |-> ""]

\* JSON.parse of the text after data: (a proper part of a document does not parse)
sseParse(data) ==
  IF data = <<DeltaHead, DeltaHiTail>> THEN DeltaDoc("Hi")
  ELSE IF data = <<DeltaHead, DeltaBangTail>> THEN DeltaDoc("!")
  ELSE IF data = <<CompletedHead, CompletedTail>> THEN CompletedDoc
  ELSE Throws

EventLine(name) == <<EventField, name, Newline>>
DataLine(head, tail) == <<DataField, head, tail, Newline>>
\* the streams an upstream may send: frames of event and data lines, each
\* closed by a blank line
SseStreams ==
  {EventLine(DeltaName) \o DataLine(DeltaHead, DeltaHiTail) \o <<Newline>>
     \o EventLine(CompletedName) \o DataLine(CompletedHead, CompletedTail) \o <<Newline>>,
   DataLine(DeltaHead, DeltaHiTail) \o <<Newline>>
     \o DataLine(DeltaHead, DeltaBangTail) \o <<Newline>>}

\* what httpsPostSSE and its caller keep between chunks
Sse == [event |-> ssEvent, records |-> ssRecords, text |-> ssText]

\* askQuestion's onEvent: fullText += data.delta for a delta record
onEvent(st, event, data) ==
  LET type == IF event # NoEvent /\ event # <<>> THEN event
              ELSE IF data # JNull THEN <<data.type>> ELSE <<>>
      st1 == [st EXCEPT !.records = Append(@, [event |-> event, data |-> data])]
  IN IF type = <<DeltaName>> /\ data # JNull /\ data.delta # ""
     THEN [st1 EXCEPT !.text = @ \o data.delta]
     ELSE st1

\* the body of flush's loop for one line
flushLine(st, line) ==
  IF line = <<>> THEN st
  ELSE IF Head(line) = EventField THEN [st EXCEPT !.event = Tail(line)]
  ELSE IF Head(line) = DataField
    THEN IF Tail(line) = <<>> THEN onEvent(st, st.event, JNull)
         ELSE IF sseParse(Tail(line)) = Throws THEN st
         ELSE onEvent(st, st.event, sseParse(Tail(line)))
  ELSE st

RECURSIVE flushFrom(_, _, _)
\* flush: buffer.split(/\r?\n/), every part taken as a line, the last one too
flushFrom(st, buffer, line) ==
  IF buffer = <<>> THEN flushLine(st, line)
  ELSE IF Head(buffer) = Newline THEN flushFrom(flushLine(st, line), Tail(buffer), <<>>)
  ELSE flushFrom(st, Tail(buffer), Append(line, Head(buffer)))

\* res.on('data'): buffer += chunk; flush() (which empties buffer)
flush(st, chunk) == flushFrom(st, chunk, <<>>)

InitSse ==
  /\ ssStream \in SseStreams
  /\ ssPos = 0
  /\ ssEvent = NoEvent
  /\ ssRecords = <<>>
  /\ ssText = ""
  /\ ssDone = FALSE

ParkedSse ==
  InitSse /\ ssStream = DataLine(DeltaHead, DeltaHiTail) \o <<Newline>>
                          \o DataLine(DeltaHead, DeltaBangTail) \o <<Newline>>

\* a network chunk arrives: the next n pieces of the stream
SsData ==
  /\ ~ssDone
  /\ \E n \in 1..(Len(ssStream) - ssPos) :
       /\ ssPos' = ssPos + n
       /\ LET st == flush(Sse, SubSeq(ssStream, ssPos + 1, ssPos + n))
          IN ssEvent' = st.event /\ ssRecords' = st.records /\ ssText' = st.text
  /\ UNCHANGED <<ssStream, ssDone>>
  /\ UNCHANGED sseFrame

\* res.on('end'): resolve()
SsEnd ==
  /\ ~ssDone
  /\ ssPos = Len(ssStream)
  /\ ssDone' = TRUE
  /\ UNCHANGED <<ssStream, ssPos, ssEvent, ssRecords, ssText>>
  /\ UNCHANGED sseFrame

\* what the stream gives when it arrives as one chunk
WholeStream(stream) == flush([event |-> NoEvent, records |-> <<>>, text |-> ""], stream)

\* C37: the records handed to onEvent, and so the accumulated reply text,
\* depend only on the upstream byte stream and not on how it is split into
\* chunks: once the stream has ended they are those of the stream arriving as
\* one chunk.
C37_ChunkingIndependent ==
  ssDone => /\ ssRecords = WholeStream(ssStream).records
            /\ ssText = WholeStream(ssStream).text

(***************************************************************************)
(* The Qwen adapter of src/mock-openai/README.md: POST /chat and           *)
(* sendMessage with the module-level chatId.                               *)
(***************************************************************************)
MaxChatRequests == 3

NoChat == 0

InitChat ==
  /\ saChatId = NoChat
  /\ saCreated = 0
  /\ saReqs = <<>>

ParkedChat == InitChat

\* POST /chat: sendMessage runs up to await loginWithCache
SaRequest ==
  /\ Len(saReqs) < MaxChatRequests
  /\ saReqs' = Append(saReqs, [pc |-> "login", sentTo |-> NoChat])
  /\ UNCHANGED <<saChatId, saCreated>>
  /\ UNCHANGED chatFrame

\* loginWithCache resolves: `if (chatId == null)` startNewChat is awaited,
\* otherwise the message is posted to chatId
SaLoginResolves ==
  /\ \E i \in 1..Len(saReqs) :
       /\ saReqs[i].pc = "login"
       /\ saReqs' = IF saChatId = NoChat
                    THEN [saReqs EXCEPT ![i].pc = "newchat"]
                    ELSE [saReqs EXCEPT ![i].pc = "posted", ![i].sentTo = saChatId]
  /\ UNCHANGED <<saChatId, saCreated>>
  /\ UNCHANGED chatFrame

\* startNewChat resolves with the id of a chat just created: chatId is
\* assigned and the message is posted to it
SaNewChatResolves ==
  /\ \E i \in 1..Len(saReqs) :
       /\ saReqs[i].pc = "newchat"
       /\ saReqs' = [saReqs EXCEPT ![i].pc = "posted", ![i].sentTo = saCreated + 1]
  /\ saCreated' = saCreated + 1
  /\ saChatId' = saCreated + 1
  /\ UNCHANGED chatFrame

\* an upstream call rejects, or the stream fails: the route answers 500
SaCallRejects ==
  /\ \E i \in 1..Len(saReqs) :
       /\ saReqs[i].pc \in {"login", "newchat", "posted"}
       /\ saReqs' = [saReqs EXCEPT ![i].pc = "failed"]
  /\ UNCHANGED <<saChatId, saCreated>>
  /\ UNCHANGED chatFrame

\* the stream ends: the route answers 200 with the collected response
SaStreamEnds ==
  /\ \E i \in 1..Len(saReqs) :
       /\ saReqs[i].pc = "posted"
       /\ saReqs' = [saReqs EXCEPT ![i].pc = "replied"]
  /\ UNCHANGED <<saChatId, saCreated>>
  /\ UNCHANGED chatFrame

\* C38: across any interleaving of concurrent POST /chat requests at most one
\* upstream chat is created per process, and every request sends its message
\* to that same chat id.
C38_OneChatPerProcess ==
  /\ saCreated <= 1
  /\ \A i, j \in 1..Len(saReqs) :
       (saReqs[i].sentTo # NoChat /\ saReqs[j].sentTo # NoChat)
         => saReqs[i].sentTo = saReqs[j].sentTo

\*SPECS-BEGIN
InitCodexSpec == InitCodex /\ ParkedProxy /\ ParkedQwen /\ ParkedLogin /\ ParkedScripted /\ ParkedCli /\ ParkedPatch /\ ParkedAdapter /\ ParkedStream /\ ParkedBinding /\ ParkedAsk /\ ParkedSse /\ ParkedChat
NextCodex == PostResponses \/ ReceivedResolve \/ ReceivedReject
SpecCodex == InitCodexSpec /\ [][NextCodex]_vars

InitProxySpec == InitProxy /\ ParkedCodex /\ ParkedQwen /\ ParkedLogin /\ ParkedScripted /\ ParkedCli /\ ParkedPatch /\ ParkedAdapter /\ ParkedStream /\ ParkedBinding /\ ParkedAsk /\ ParkedSse /\ ParkedChat
NextProxy == PxInvalidBody \/ PxHandleResponses \/ PxHandleMocked \/ PxUpstreamSettles
SpecProxy == InitProxySpec /\ [][NextProxy]_vars

InitQwenSpec == InitQwen /\ ParkedCodex /\ ParkedProxy /\ ParkedLogin /\ ParkedScripted /\ ParkedCli /\ ParkedPatch /\ ParkedAdapter /\ ParkedStream /\ ParkedBinding /\ ParkedAsk /\ ParkedSse /\ ParkedChat
NextQwen ==
  \/ QwenRequest \/ QwenClientClose \/ QwenLoginResolves \/ QwenNewChatResolves
  \/ QwenCallRejects \/ QwenStreamOpens \/ QwenDelta \/ QwenUpstreamEnd
  \/ QwenUpstreamError \/ QwenTimerFires
SpecQwen == InitQwenSpec /\ [][NextQwen]_vars

\* Node runs a due timer and settles the request/response calls (sign-in, new
\* chat, the streaming POST's answer); nothing makes the upstream stream send
\* or end, and nothing makes the client close
FairSpecQwen ==
  /\ SpecQwen
  /\ WF_vars(QwenTimerFires)
  /\ WF_vars(QwenLoginResolves \/ QwenNewChatResolves \/ QwenStreamOpens \/ QwenCallRejects)

InitLoginSpec == InitLogin /\ ParkedCodex /\ ParkedProxy /\ ParkedQwen /\ ParkedScripted /\ ParkedCli /\ ParkedPatch /\ ParkedAdapter /\ ParkedStream /\ ParkedBinding /\ ParkedAsk /\ ParkedSse /\ ParkedChat
NextLogin ==
  \/ LgListen \/ LgCallback \/ LgOtherRequest \/ LgCodeExchangeSettles
  \/ LgApiKeySettles \/ LgCloseTimer \/ LgReturn
SpecLogin == InitLoginSpec /\ [][NextLogin]_vars

\* the token endpoint answers every exchange posted to it, Node runs a due
\* timer and emits the server's 'close'; nothing makes a browser send a callback
FairSpecLogin ==
  /\ SpecLogin
  /\ WF_vars(LgCodeExchangeSettles)
  /\ WF_vars(LgApiKeySettles)
  /\ WF_vars(LgCloseTimer)
  /\ WF_vars(LgReturn)

InitScriptedSpec == InitScripted /\ ParkedCodex /\ ParkedProxy /\ ParkedQwen /\ ParkedLogin /\ ParkedCli /\ ParkedPatch /\ ParkedAdapter /\ ParkedStream /\ ParkedBinding /\ ParkedAsk /\ ParkedSse /\ ParkedChat
NextScripted == ScriptedRequest
SpecScripted == InitScriptedSpec /\ [][NextScripted]_vars

InitCliSpec == InitCli /\ ParkedCodex /\ ParkedProxy /\ ParkedQwen /\ ParkedLogin /\ ParkedScripted /\ ParkedPatch /\ ParkedAdapter /\ ParkedStream /\ ParkedBinding /\ ParkedAsk /\ ParkedSse /\ ParkedChat
NextCli ==
  \/ ClMainStart \/ ClLoginSaves \/ ClLoginReturns \/ ClOtherWriteOpens \/ ClOtherWriteData
SpecCli == InitCliSpec /\ [][NextCli]_vars
\* the fake-LLM route answering with tool calls
NextCodexTools == PostResponses \/ ReceivedToolReply \/ ReceivedReject
SpecCodexTools == InitCodexSpec /\ [][NextCodexTools]_vars

InitPatchSpec ==
  InitPatch /\ ParkedCodex /\ ParkedProxy /\ ParkedQwen /\ ParkedLogin /\ ParkedScripted /\ ParkedCli
    /\ ParkedAdapter /\ ParkedStream /\ ParkedBinding /\ ParkedAsk /\ ParkedSse /\ ParkedChat
NextPatch == PbScan
SpecPatch == InitPatchSpec /\ [][NextPatch]_vars

InitAdapterSpec ==
  InitAdapter /\ ParkedCodex /\ ParkedProxy /\ ParkedQwen /\ ParkedLogin /\ ParkedScripted /\ ParkedCli
    /\ ParkedPatch /\ ParkedStream /\ ParkedBinding /\ ParkedAsk /\ ParkedSse /\ ParkedChat
NextAdapter == GaRequest \/ GaReplyArrives
SpecAdapter == InitAdapterSpec /\ [][NextAdapter]_vars

InitStreamSpec ==
  InitStream /\ ParkedCodex /\ ParkedProxy /\ ParkedQwen /\ ParkedLogin /\ ParkedScripted /\ ParkedCli
    /\ ParkedPatch /\ ParkedAdapter /\ ParkedBinding /\ ParkedAsk /\ ParkedSse /\ ParkedChat
NextStream == SmData \/ SmEnd \/ SmError
SpecStream == InitStreamSpec /\ [][NextStream]_vars

InitBindingSpec ==
  InitBinding /\ ParkedCodex /\ ParkedProxy /\ ParkedQwen /\ ParkedLogin /\ ParkedScripted /\ ParkedCli
    /\ ParkedPatch /\ ParkedAdapter /\ ParkedStream /\ ParkedAsk /\ ParkedSse /\ ParkedChat
NextBinding == BdListening \/ BdCallback \/ BdCallbackRejected
SpecBinding == InitBindingSpec /\ [][NextBinding]_vars

InitAskSpec ==
  InitAsk /\ ParkedCodex /\ ParkedProxy /\ ParkedQwen /\ ParkedLogin /\ ParkedScripted /\ ParkedCli
    /\ ParkedPatch /\ ParkedAdapter /\ ParkedStream /\ ParkedBinding /\ ParkedSse /\ ParkedChat
NextAsk == AqCall \/ AqResponsesSettles \/ AqChatSettles
SpecAsk == InitAskSpec /\ [][NextAsk]_vars

InitSseSpec ==
  InitSse /\ ParkedCodex /\ ParkedProxy /\ ParkedQwen /\ ParkedLogin /\ ParkedScripted /\ ParkedCli
    /\ ParkedPatch /\ ParkedAdapter /\ ParkedStream /\ ParkedBinding /\ ParkedAsk /\ ParkedChat
NextSse == SsData \/ SsEnd
SpecSse == InitSseSpec /\ [][NextSse]_vars

InitChatSpec ==
  InitChat /\ ParkedCodex /\ ParkedProxy /\ ParkedQwen /\ ParkedLogin /\ ParkedScripted /\ ParkedCli
    /\ ParkedPatch /\ ParkedAdapter /\ ParkedStream /\ ParkedBinding /\ ParkedAsk /\ ParkedSse
NextChat == SaRequest \/ SaLoginResolves \/ SaNewChatResolves \/ SaCallRejects \/ SaStreamEnds
SpecChat == InitChatSpec /\ [][NextChat]_vars

\*SPECS-END
=============================================================================
